---- MODULE Spec2Model ----
(***************************************************************************)
(* Model of the property-block editor of the P4 bringup/tuning tool:       *)
(* extract_block, parse_properties_block, replace_block and the two copies *)
(* of update_properties_block_preserve_format (tuning_process.py and       *)
(* file_operations.py).                                                    *)
(*                                                                         *)
(* Text is modelled character by character.  A Python str is a sequence of *)
(* one-character strings; a file is a sequence of lines, each line keeping *)
(* its trailing "\n" as readlines() returns it.  Words that no code path   *)
(* ever splits are written as one symbol:                                  *)
(*     "P" = PRODUCT_PROPERTY_OVERRIDES   "L" = LMKD property              *)
(*     "D" = DHA property                 "C" = Chimera property           *)
(*     "N" = Nandswap                                                      *)
(* A Python dict is a sequence of <<key, value>> pairs with distinct keys, *)
(* in insertion order (dicts iterate in insertion order).                  *)
(***************************************************************************)
EXTENDS Integers, Sequences, FiniteSets, TLC

VARIABLES
    lines,           \* the line sequence of the file being edited
    new_properties,  \* the mapping handed to the block synthesizer
    impl,            \* which copy edits the file: "tuning" or "file_ops"
    original,        \* the line sequence the last update was applied to
    applied,         \* number of updates applied so far
    parsed,          \* result of the last parse_properties_block, or NotParsed
    properties_dict, \* the edited table: a mapping per category (LMKD, Chimera)
    vince_lines,     \* the line sequence of the reference (VINCE) file
    extracted,       \* result of the last extract_block call, or NotExtracted
    disk,            \* the content of the target file, as lines
    backups,         \* the backup files of the target: timestamp -> content
    clock,           \* datetime.now(), in whole seconds
    pc,              \* the statement the running edit is at, or "idle"
    edits,           \* one record per edit call made so far
    proc,            \* the workflow that runs: "bringup", "tuning" or "load"
    rpc,             \* the statement the workflow is at
    process_beni,    \* the workflow's flag of that name
    process_flumen,  \* the workflow's flag of that name
    files_updated,   \* run_tuning_process: targets whose update returned True
    error_calls,     \* number of calls of error_callback
    progress_calls,  \* the values passed to progress_callback, in order
    step_failed,     \* some step of the workflow has failed
    outcome,         \* "running", "returned", or "raised" for an exception
                     \* that left the workflow function
    error_titles,    \* the titles passed to error_callback, in order
    trace,           \* the commands and file operations of the run, in order
    has_lmkd,        \* run_bringup_process: result of validate_properties_exist
    has_chimera,     \* run_bringup_process: result of validate_properties_exist
    bringup_start_btn,   \* state of the Start button: "normal" or "disabled"
    load_properties_btn, \* state of the Load Properties button
    tuning_start_btn,    \* state of the Apply Tuning button
    current_mode,    \* the tab shown: "bringup" or "tuning"
    entries,         \* the text of the path entries of both tabs
    after_queue,     \* callbacks handed to root.after(0, ...), not yet run
    threads          \* the worker threads started so far

\* state of a whole-file edit
file_vars == <<properties_dict, vince_lines, extracted>>

\* the file system and the edit call in progress
io_vars == <<disk, backups, clock, pc, edits>>

\* a workflow run and what its callbacks have received
run_vars ==
    <<proc, rpc, process_beni, process_flumen, files_updated, error_calls,
      progress_calls, step_failed, outcome, error_titles, trace, has_lmkd,
      has_chimera>>

\* the window: its buttons, entries, pending callbacks and worker threads
gui_vars ==
    <<bringup_start_btn, load_properties_btn, tuning_start_btn, current_mode,
      entries, after_queue, threads>>

vars ==
    <<lines, new_properties, impl, original, applied, parsed, file_vars,
      io_vars, run_vars, gui_vars>>

(***************************************************************************)
(* Python str primitives                                                   *)
(***************************************************************************)
SetMin(S) == CHOOSE x \in S : \A y \in S : x <= y
SetMax(S) == CHOOSE x \in S : \A y \in S : x >= y

\* characters str.strip() removes
IsSpace(c) == c \in {" ", "\n", "\t"}

\* s.lstrip()
lstrip(s) ==
    LET keep == {i \in 1..Len(s) : ~IsSpace(s[i])}
    IN  IF keep = {} THEN <<>> ELSE SubSeq(s, SetMin(keep), Len(s))

\* s.rstrip()
rstrip(s) ==
    LET keep == {i \in 1..Len(s) : ~IsSpace(s[i])}
    IN  IF keep = {} THEN <<>> ELSE SubSeq(s, 1, SetMax(keep))

\* s.strip()
strip(s) ==
    LET keep == {i \in 1..Len(s) : ~IsSpace(s[i])}
    IN  IF keep = {} THEN <<>> ELSE SubSeq(s, SetMin(keep), SetMax(keep))

\* c in s, for a one-character c
In(c, s) == \E i \in 1..Len(s) : s[i] = c

\* t in s, for a substring t
InStr(t, s) == \E i \in 0..(Len(s) - Len(t)) : SubSeq(s, i + 1, i + Len(t)) = t

\* s.startswith(c) and s.endswith(c)
startswith(s, c) == Len(s) > 0 /\ s[1] = c
endswith(s, c) == Len(s) > 0 /\ s[Len(s)] = c

\* s.split(c, 1) for a string s that contains c: <<before, after>>
split1(s, c) ==
    LET at == SetMin({i \in 1..Len(s) : s[i] = c})
    IN  <<SubSeq(s, 1, at - 1), SubSeq(s, at + 1, Len(s))>>

\* s.split(c)[0]
split_first(s, c) == IF In(c, s) THEN split1(s, c)[1] ELSE s

\* line[:len(line) - len(line.lstrip())]
indent_of(line) == SubSeq(line, 1, Len(line) - Len(lstrip(line)))

\* s[:-1]
drop_last(s) == SubSeq(s, 1, Len(s) - 1)

(***************************************************************************)
(* Python dict primitives                                                  *)
(***************************************************************************)
dict_keys(d) == {d[i][1] : i \in DOMAIN d}
dict_has(d, k) == \E i \in DOMAIN d : d[i][1] = k
dict_get(d, k) == d[CHOOSE i \in DOMAIN d : d[i][1] = k][2]
dict_del(d, k) == SelectSeq(d, LAMBDA e : e[1] # k)
dict_set(d, k, v) ==
    IF dict_has(d, k)
    THEN [i \in DOMAIN d |-> IF d[i][1] = k THEN <<k, v>> ELSE d[i]]
    ELSE Append(d, <<k, v>>)

(***************************************************************************)
(* Literals of the source                                                  *)
(***************************************************************************)
PPO == "P"
PlusEq == <<"+", "=">>
BS == "\\"
NL == <<"\n">>
ContinuationEnd == <<" ", "\\", "\n">>
FourSpaces == <<" ", " ", " ", " ">>
LMKD_HEADER == <<"#", " ", "L">>
DHA_HEADER == <<"#", " ", "D">>
CHIMERA_HEADER == <<"#", " ", "C">>
LMKD_NEXT == {CHIMERA_HEADER, DHA_HEADER}
DHA_NEXT == {CHIMERA_HEADER}
CHIMERA_NEXT == {<<"#", " ", "N">>, <<"#">>, <<>>}

(***************************************************************************)
(* Block locator                                                           *)
(***************************************************************************)
\* index of the first line whose stripped text equals start_header, 0 if none
find_start(ls, start_header) ==
    LET hits == {i \in 1..Len(ls) : strip(ls[i]) = start_header}
    IN  IF hits = {} THEN 0 ELSE SetMin(hits)

\* find_end that takes the last matching line instead of the first
find_end_last(ls, start, next_header_list) ==
    LET hits == {i \in (start + 1)..Len(ls) : strip(ls[i]) \in next_header_list}
    IN  IF hits = {} THEN Len(ls) + 1 ELSE SetMax(hits)

\* index of the first line after start whose stripped text is in
\* next_header_list, Len(ls) + 1 if none
find_end(ls, start, next_header_list) ==
    LET hits == {i \in (start + 1)..Len(ls) : strip(ls[i]) \in next_header_list}
    IN  IF hits = {} THEN Len(ls) + 1 ELSE SetMin(hits)

extract_block(ls, start_header, next_header_list) ==
    LET start == find_start(ls, start_header)
    IN  IF start = 0 THEN <<>>
        ELSE SubSeq(ls, start, find_end(ls, start, next_header_list) - 1)

\* lines[:start] + new_block + lines[end + 1:]: the terminator line is lost
splice_drops_terminator(ls, start, end, new_block) ==
    SubSeq(ls, 1, start - 1) \o new_block \o SubSeq(ls, end + 1, Len(ls))

\* lines[:start] + new_block + lines[end:]
splice(ls, start, end, new_block) ==
    SubSeq(ls, 1, start - 1) \o new_block \o SubSeq(ls, end, Len(ls))

replace_block(target_lines, block_lines, start_header, next_header_list) ==
    LET start == find_start(target_lines, start_header)
    IN  IF start = 0 THEN target_lines
        ELSE splice(target_lines, start,
                    find_end(target_lines, start, next_header_list), block_lines)

(***************************************************************************)
(* Block parser                                                            *)
(***************************************************************************)
\* the loop body of parse_properties_block for one line
parse_line(properties, raw) ==
    LET line == strip(raw)
    IN  IF line = <<>> \/ startswith(line, "#") THEN properties
        ELSE IF In("=", line)
        THEN LET kv == split1(line, "=")
                 key == strip(kv[1])
                 value == strip(kv[2])
                 value2 == IF In("#", value) THEN strip(split_first(value, "#"))
                           ELSE value
             IN  dict_set(properties, key, value2)
        ELSE properties

RECURSIVE parse_from(_, _, _)
parse_from(block_lines, i, properties) ==
    IF i > Len(block_lines) THEN properties
    ELSE parse_from(block_lines, i + 1, parse_line(properties, block_lines[i]))

parse_properties_block(block_lines) == parse_from(block_lines, 1, <<>>)

(***************************************************************************)
(* Block synthesizer, tuning_process.py                                    *)
(***************************************************************************)
\* condition "this line introduces an override group"
is_override_intro(stripped_line) ==
    In(PPO, stripped_line) /\ InStr(PlusEq, stripped_line)

\* condition "comment or empty line"
is_comment_or_blank(stripped_line) ==
    stripped_line = <<>> \/ startswith(stripped_line, "#")

\* prop_stripped[:-1].strip() if prop_stripped.endswith("\\") else prop_stripped
member_content(prop_stripped) ==
    IF endswith(prop_stripped, BS) THEN strip(drop_last(prop_stripped))
    ELSE prop_stripped

\* first pass, inner loop: collect the lines of one override block from index i
RECURSIVE tuning_collect_block(_, _, _, _)
tuning_collect_block(ol, i, block_properties, block_lines) ==
    IF i > Len(ol)
    THEN [i |-> i, properties |-> block_properties, lines |-> block_lines]
    ELSE LET prop_stripped == strip(ol[i])
         IN  IF is_comment_or_blank(prop_stripped)
             THEN tuning_collect_block(ol, i + 1, block_properties,
                                       Append(block_lines, i))
             ELSE IF In("=", prop_stripped)
             THEN LET prop_content == member_content(prop_stripped)
                      props2 == IF In("=", prop_content)
                                THEN Append(block_properties,
                                            strip(split1(prop_content, "=")[1]))
                                ELSE block_properties
                  IN  IF ~endswith(prop_stripped, BS)
                      THEN [i |-> i + 1, properties |-> props2,
                            lines |-> Append(block_lines, i)]
                      ELSE tuning_collect_block(ol, i + 1, props2,
                                                Append(block_lines, i))
             ELSE [i |-> i, properties |-> block_properties,
                   lines |-> block_lines]

\* first pass, outer loop: all override blocks of the section
RECURSIVE tuning_find_override_blocks(_, _, _)
tuning_find_override_blocks(ol, i, override_blocks) ==
    IF i > Len(ol) THEN override_blocks
    ELSE IF is_override_intro(strip(ol[i]))
    THEN LET r == tuning_collect_block(ol, i + 1, <<>>, <<i>>)
         IN  tuning_find_override_blocks(ol, r.i,
                 Append(override_blocks,
                        [start |-> i, properties |-> r.properties,
                         lines |-> r.lines]))
    ELSE tuning_find_override_blocks(ol, i + 1, override_blocks)

\* indentation of the first property line of the block, else 4 spaces
tuning_block_indent(ol, block_lines) ==
    LET cand == {k \in 2..Len(block_lines) :
                    /\ In("=", strip(ol[block_lines[k]]))
                    /\ ~startswith(strip(ol[block_lines[k]]), "#")}
    IN  IF cand = {} THEN FourSpaces
        ELSE indent_of(ol[block_lines[SetMin(cand)]])

\* "Add existing properties": fold over the block's lines from position k
RECURSIVE tuning_existing_props(_, _, _, _, _)
tuning_existing_props(ol, block_lines, k, block_props, remaining) ==
    IF k > Len(block_lines)
    THEN [block_props |-> block_props, remaining |-> remaining]
    ELSE LET prop_stripped == strip(ol[block_lines[k]])
             prop_content == member_content(prop_stripped)
         IN  IF is_comment_or_blank(prop_stripped)
                \/ ~In("=", prop_stripped) \/ ~In("=", prop_content)
             THEN tuning_existing_props(ol, block_lines, k + 1,
                                        block_props, remaining)
             ELSE LET kv == split1(prop_content, "=")
                      key == strip(kv[1])
                  IN  IF dict_has(remaining, key)
                      THEN tuning_existing_props(ol, block_lines, k + 1,
                               dict_set(block_props, key, dict_get(remaining, key)),
                               dict_del(remaining, key))
                      ELSE tuning_existing_props(ol, block_lines, k + 1,
                               dict_set(block_props, key, strip(kv[2])),
                               remaining)

\* "Add any remaining new properties to this block"
RECURSIVE dict_update(_, _, _)
dict_update(d, other, k) ==
    IF k > Len(other) THEN d
    ELSE dict_update(dict_set(d, other[k][1], other[k][2]), other, k + 1)

\* "Write all properties in this block": last member without backslash
tuning_write_block(default_indent, prop_items) ==
    [idx \in 1..Len(prop_items) |->
        default_indent \o prop_items[idx][1] \o <<"=">> \o prop_items[idx][2]
        \o (IF idx = Len(prop_items) THEN NL ELSE ContinuationEnd)]

\* the whole branch "if current_block:" of the second pass
tuning_process_block(ol, block, st) ==
    LET ex == tuning_existing_props(ol, block.lines, 2, <<>>, st.remaining)
        block_props == dict_update(ex.block_props, ex.remaining, 1)
        out == Append(st.new_block, ol[block.start])
               \o tuning_write_block(tuning_block_indent(ol, block.lines),
                                     block_props)
    IN  [new_block |-> out,
         remaining |-> <<>>,
         processed |-> st.processed \cup {block.lines[k] : k \in DOMAIN block.lines},
         last |-> Len(out)]

\* trailing_comment of a regular property line
trailing_comment(old_value) ==
    IF In("#", old_value)
    THEN <<" ", "#">> \o rstrip(split1(old_value, "#")[2])
    ELSE <<>>

\* the branch for a regular property line (both copies have the same text)
regular_property_line(line, remaining) ==
    LET stripped_line == strip(line)
        kv == split1(stripped_line, "=")
        key == strip(kv[1])
    IN  IF dict_has(remaining, key)
        THEN [line |-> indent_of(line) \o key \o <<"=">>
                       \o dict_get(remaining, key)
                       \o trailing_comment(kv[2]) \o NL,
              remaining |-> dict_del(remaining, key)]
        ELSE [line |-> line, remaining |-> remaining]

\* second pass: rebuild the block line by line
RECURSIVE tuning_rebuild(_, _, _, _)
tuning_rebuild(ol, override_blocks, line_idx, st) ==
    IF line_idx > Len(ol) THEN st
    ELSE IF line_idx \in st.processed
    THEN tuning_rebuild(ol, override_blocks, line_idx + 1, st)
    ELSE
    LET line == ol[line_idx]
        stripped_line == strip(line)
        starts == {b \in DOMAIN override_blocks :
                      override_blocks[b].start = line_idx}
    IN  IF is_comment_or_blank(stripped_line)
        THEN tuning_rebuild(ol, override_blocks, line_idx + 1,
                 [st EXCEPT !.new_block = Append(@, line)])
        ELSE IF starts # {}
        THEN tuning_rebuild(ol, override_blocks, line_idx + 1,
                 tuning_process_block(ol, override_blocks[SetMin(starts)], st))
        ELSE IF In("=", stripped_line) /\ ~In(PPO, stripped_line)
        THEN LET r == regular_property_line(line, st.remaining)
                 out == Append(st.new_block, r.line)
             IN  tuning_rebuild(ol, override_blocks, line_idx + 1,
                     [st EXCEPT !.new_block = out, !.remaining = r.remaining,
                                !.last = Len(out)])
        ELSE tuning_rebuild(ol, override_blocks, line_idx + 1,
                 [st EXCEPT !.new_block = Append(@, line)])

\* indentation for properties appended as regular lines
regular_default_indent(ol) ==
    LET cand == {i \in 1..Len(ol) :
                    /\ In("=", ol[i])
                    /\ ~startswith(strip(ol[i]), "#")
                    /\ ~In(PPO, ol[i])}
    IN  IF cand = {} THEN FourSpaces ELSE indent_of(ol[SetMin(cand)])

\* "Add any remaining new properties as regular properties"
append_remaining(ol, new_block, remaining, last_property_line_idx) ==
    IF remaining = <<>> THEN new_block
    ELSE LET default_indent == regular_default_indent(ol)
             new_props_lines ==
                 [k \in 1..Len(remaining) |->
                     default_indent \o remaining[k][1] \o <<"=">>
                     \o remaining[k][2] \o NL]
         IN  SubSeq(new_block, 1, last_property_line_idx)
             \o new_props_lines
             \o SubSeq(new_block, last_property_line_idx + 1, Len(new_block))

\* new_block of the tuning copy for the located section ol
tuning_new_block(ol, new_props) ==
    LET override_blocks == tuning_find_override_blocks(ol, 2, <<>>)
        st == tuning_rebuild(ol, override_blocks, 2,
                  [new_block |-> <<ol[1]>>, remaining |-> new_props,
                   processed |-> {}, last |-> 1])
    IN  append_remaining(ol, st.new_block, st.remaining, st.last)

tuning_update_properties_block_preserve_format(ls, new_props, start_header, next_header_list) ==
    LET start == find_start(ls, start_header)
        end == find_end(ls, start, next_header_list)
    IN  IF start = 0 THEN ls
        ELSE splice(ls, start, end,
                    tuning_new_block(SubSeq(ls, start, end - 1), new_props))

(***************************************************************************)
(* Block synthesizer, file_operations.py                                   *)
(***************************************************************************)
\* items of remaining whose key is not in current_override_properties
remaining_for_this_block(remaining, current_override_properties) ==
    SelectSeq(remaining, LAMBDA e : e[1] \notin current_override_properties)

\* lines appended after the last member of an override block
fileops_appended_members(default_indent, prop_items) ==
    [idx \in 1..Len(prop_items) |->
        default_indent \o prop_items[idx][1] \o <<"=">> \o prop_items[idx][2]
        \o (IF idx = Len(prop_items) THEN NL ELSE ContinuationEnd)]

\* branch for a member line that ends with a backslash
fileops_member_line(prop_line, st) ==
    LET prop_content == strip(drop_last(strip(prop_line)))
        kv == split1(prop_content, "=")
        key == strip(kv[1])
    IN  IF ~In("=", prop_content)
        THEN [st EXCEPT !.new_block = Append(@, prop_line)]
        ELSE IF dict_has(st.remaining, key)
        THEN [new_block |-> Append(st.new_block,
                                indent_of(prop_line) \o key \o <<"=">>
                                \o dict_get(st.remaining, key)
                                \o ContinuationEnd),
              remaining |-> dict_del(st.remaining, key),
              current |-> st.current \cup {key}]
        ELSE [st EXCEPT !.new_block = Append(@, prop_line),
                        !.current = @ \cup {key}]

\* branch for the member line without backslash (last property of the block)
fileops_last_member_line(prop_line, st) ==
    LET prop_stripped == strip(prop_line)
        kv == split1(prop_stripped, "=")
        key == strip(kv[1])
        indent_str == indent_of(prop_line)
        new_line ==
            IF dict_has(st.remaining, key)
            THEN indent_str \o key \o <<"=">> \o dict_get(st.remaining, key)
                 \o (IF \E k \in dict_keys(st.remaining) : k \notin st.current
                     THEN ContinuationEnd ELSE NL)
            ELSE IF remaining_for_this_block(st.remaining, st.current) # <<>>
            THEN indent_str \o key \o <<"=">> \o strip(kv[2]) \o ContinuationEnd
            ELSE prop_line
        remaining1 == dict_del(st.remaining, key)
        current1 == st.current \cup {key}
        extra == remaining_for_this_block(remaining1, current1)
    IN  [new_block |-> Append(st.new_block, new_line)
                       \o fileops_appended_members(indent_str, extra),
         remaining |-> SelectSeq(remaining1,
                                 LAMBDA e : e[1] \notin dict_keys(extra)),
         current |-> current1]

\* inner loop: the lines of one override block from line_idx on
RECURSIVE fileops_override_block(_, _, _)
fileops_override_block(ol, line_idx, st) ==
    IF line_idx > Len(ol) THEN [line_idx |-> line_idx, st |-> st]
    ELSE LET prop_line == ol[line_idx]
             prop_stripped == strip(prop_line)
         IN  IF is_comment_or_blank(prop_stripped)
             THEN fileops_override_block(ol, line_idx + 1,
                      [st EXCEPT !.new_block = Append(@, prop_line)])
             ELSE IF In("=", prop_stripped) /\ endswith(prop_stripped, BS)
             THEN fileops_override_block(ol, line_idx + 1,
                      fileops_member_line(prop_line, st))
             ELSE IF In("=", prop_stripped)
             THEN [line_idx |-> line_idx + 1,
                   st |-> fileops_last_member_line(prop_line, st)]
             ELSE [line_idx |-> line_idx + 1,
                   st |-> [st EXCEPT !.new_block = Append(@, prop_line)]]

\* outer loop over the lines of the section
RECURSIVE fileops_rebuild(_, _, _)
fileops_rebuild(ol, line_idx, st) ==
    IF line_idx > Len(ol) THEN st
    ELSE
    LET line == ol[line_idx]
        stripped_line == strip(line)
    IN  IF is_comment_or_blank(stripped_line)
        THEN fileops_rebuild(ol, line_idx + 1,
                 [st EXCEPT !.new_block = Append(@, line)])
        ELSE IF is_override_intro(stripped_line)
        THEN LET r == fileops_override_block(ol, line_idx + 1,
                          [new_block |-> Append(st.new_block, line),
                           remaining |-> st.remaining,
                           current |-> {}])
             IN  fileops_rebuild(ol, r.line_idx,
                     [st EXCEPT !.new_block = r.st.new_block,
                                !.remaining = r.st.remaining])
        ELSE IF In("=", stripped_line) /\ ~In(PPO, stripped_line)
        THEN LET r == regular_property_line(line, st.remaining)
                 out == Append(st.new_block, r.line)
             IN  fileops_rebuild(ol, line_idx + 1,
                     [new_block |-> out, remaining |-> r.remaining,
                      last |-> Len(out)])
        ELSE fileops_rebuild(ol, line_idx + 1,
                 [st EXCEPT !.new_block = Append(@, line)])

\* new_block of the file_operations copy for the located section ol
fileops_new_block(ol, new_props) ==
    LET st == fileops_rebuild(ol, 2,
                  [new_block |-> <<ol[1]>>, remaining |-> new_props,
                   last |-> 1])
    IN  append_remaining(ol, st.new_block, st.remaining, st.last)

fileops_update_properties_block_preserve_format(ls, new_props, start_header, next_header_list) ==
    LET start == find_start(ls, start_header)
        end == find_end(ls, start, next_header_list)
    IN  IF start = 0 THEN ls
        ELSE splice(ls, start, end,
                    fileops_new_block(SubSeq(ls, start, end - 1), new_props))

(***************************************************************************)
(* Inputs: files and mappings the editor is run on                         *)
(***************************************************************************)
MaxBody == 3      \* lines of the section after its header
MaxMap == 2       \* entries of new_properties
MaxApply == 2     \* updates applied in a row to one file

\* lines a section body is built from
BodyPool ==
    { <<" ", "a", "=", "1", "\n">>,                 \* indented property
      <<"b", "=", "2", " ", "#", "c", "\n">>,       \* property, inline comment
      <<"#", "x", "\n">>,                           \* comment line
      <<"\n">>,                                     \* blank line
      <<"P", " ", "+", "=", " ", "\\", "\n">>,      \* override introducer
      <<" ", " ", "c", "=", "3", " ", "\\", "\n">>, \* member with backslash
      <<"z", "z", "\n">> }                          \* neither comment nor property

\* sequences over S of length at most n in which no element repeats
DistinctSeqs(S, n) ==
    {q \in UNION {[1..k -> S] : k \in 0..n} :
        \A i, j \in DOMAIN q : i # j => q[i] # q[j]}

Bodies == DistinctSeqs(BodyPool, MaxBody)

HeaderLine == LMKD_HEADER \o NL
OutsideBefore == <<"a", "=", "0", "\n">>
OutsideAfter == <<" ", "b", "=", "0", " ", "\\", "\n">>

\* a section that runs to the end of the file, or one between other content
Files ==
    {<<HeaderLine>> \o b : b \in Bodies}
    \cup {<<OutsideBefore, HeaderLine>> \o b
          \o <<CHIMERA_HEADER \o NL, OutsideAfter>> : b \in Bodies}

MapKeys == {<<"a">>, <<"b">>, <<"c">>}

\* the value the edited table holds for a key
NewValue(k) ==
    IF k = <<"a">> THEN <<"5">>
    ELSE IF k = <<"b">> THEN <<"7", "#", "8">>
    ELSE <<"9">>

Mappings ==
    {[i \in DOMAIN ks |-> <<ks[i], NewValue(ks[i])>>] :
        ks \in DistinctSeqs(MapKeys, MaxMap)}

\* blocks extract_block can return for a reference file
ReferenceBlocks ==
    { <<>>,
      <<HeaderLine, <<" ", "a", "=", "1", "\n">>>>,
      <<HeaderLine, <<"#", "x", "\n">>, <<"c", "=", "3", "\n">>,
        <<"b", "=", "2", "\n">>>> }

NotParsed == [done |-> FALSE, props |-> <<>>]

NoProperties == [LMKD |-> <<>>, Chimera |-> <<>>]

NotExtracted ==
    [done |-> FALSE, start_header |-> <<>>, next_header_list |-> {}, out |-> <<>>]

\* no whole-file edit is under way
NoFileEdit ==
    /\ properties_dict = NoProperties
    /\ vince_lines = <<>>
    /\ extracted = NotExtracted

\* no file is on disk and no edit call is running
NoIO ==
    /\ disk = <<>>
    /\ backups = <<>>
    /\ clock = 0
    /\ pc = "idle"
    /\ edits = <<>>

\* no workflow is running
NoRun ==
    /\ proc = "none"
    /\ rpc = "idle"
    /\ process_beni = FALSE
    /\ process_flumen = FALSE
    /\ files_updated = {}
    /\ error_calls = 0
    /\ progress_calls = <<>>
    /\ step_failed = FALSE
    /\ outcome = "returned"
    /\ error_titles = <<>>
    /\ trace = <<>>
    /\ has_lmkd = FALSE
    /\ has_chimera = FALSE

\* the window is not open
NoGui ==
    /\ bringup_start_btn = "normal"
    /\ load_properties_btn = "normal"
    /\ tuning_start_btn = "disabled"
    /\ current_mode = "bringup"
    /\ entries = <<>>
    /\ after_queue = <<>>
    /\ threads = <<>>

(***************************************************************************)
(* State machine                                                           *)
(***************************************************************************)
Init ==
    /\ lines \in Files
    /\ impl \in {"tuning", "file_ops", "bringup"}
    /\ new_properties \in (IF impl = "bringup" THEN {<<>>} ELSE Mappings)
    /\ original = lines
    /\ applied = 0
    /\ parsed = NotParsed
    /\ NoFileEdit
    /\ NoIO
    /\ NoRun
    /\ NoGui

\* tuning_process.update_properties_block_preserve_format on the LMKD section
UpdateTuning ==
    /\ impl = "tuning"
    /\ applied < MaxApply
    /\ lines' = tuning_update_properties_block_preserve_format(
                    lines, new_properties, LMKD_HEADER, LMKD_NEXT)
    /\ original' = lines
    /\ applied' = applied + 1
    /\ parsed' = NotParsed
    /\ UNCHANGED <<new_properties, impl, file_vars, io_vars, run_vars, gui_vars>>

\* file_operations.update_properties_block_preserve_format on the LMKD section
UpdateFileOps ==
    /\ impl = "file_ops"
    /\ applied < MaxApply
    /\ lines' = fileops_update_properties_block_preserve_format(
                    lines, new_properties, LMKD_HEADER, LMKD_NEXT)
    /\ original' = lines
    /\ applied' = applied + 1
    /\ parsed' = NotParsed
    /\ UNCHANGED <<new_properties, impl, file_vars, io_vars, run_vars, gui_vars>>

\* file_operations.replace_block with a block taken from a reference file
ReplaceBlock ==
    /\ impl = "bringup"
    /\ applied < MaxApply
    /\ \E block_lines \in ReferenceBlocks :
           lines' = replace_block(lines, block_lines, LMKD_HEADER, LMKD_NEXT)
    /\ original' = lines
    /\ applied' = applied + 1
    /\ parsed' = NotParsed
    /\ UNCHANGED <<new_properties, impl, file_vars, io_vars, run_vars, gui_vars>>

\* parse_properties_block on the section extract_block finds
Parse ==
    /\ ~parsed.done
    /\ parsed' = [done |-> TRUE,
                  props |-> parse_properties_block(
                                extract_block(lines, LMKD_HEADER, LMKD_NEXT))]
    /\ UNCHANGED <<lines, new_properties, impl, original, applied, file_vars,
                   io_vars, run_vars, gui_vars>>

Next == UpdateTuning \/ UpdateFileOps \/ ReplaceBlock \/ Parse

Spec == Init /\ [][Next]_vars

(***************************************************************************)
(* The same machine on sections that open with an override group and go    *)
(* on with further lines: ordinary properties after the group, or a second *)
(* group.                                                                  *)
(***************************************************************************)
MaxTail == 3      \* lines of the section after the introducer

IntroLine == <<"P", " ", "+", "=", " ", "\\", "\n">>

LayoutPool ==
    { <<" ", "a", "=", "1", "\n">>,
      <<"b", "=", "2", " ", "#", "c", "\n">>,
      <<"c", "=", "3", "\n">>,
      <<"z", "z", "\n">>,
      IntroLine }

LayoutFiles ==
    {<<HeaderLine, IntroLine>> \o t : t \in DistinctSeqs(LayoutPool, MaxTail)}

InitLayout ==
    /\ lines \in LayoutFiles
    /\ impl \in {"tuning", "file_ops", "bringup"}
    /\ new_properties \in (IF impl = "bringup" THEN {<<>>} ELSE Mappings)
    /\ original = lines
    /\ applied = 0
    /\ parsed = NotParsed
    /\ NoFileEdit
    /\ NoIO
    /\ NoRun
    /\ NoGui

SpecLayout == InitLayout /\ [][Next]_vars

(***************************************************************************)
(* Reading a section, for the properties below                             *)
(***************************************************************************)
\* the LMKD section of a line sequence
Section(ls) == extract_block(ls, LMKD_HEADER, LMKD_NEXT)

\* the file the last update ran on has the section
Located == find_start(original, LMKD_HEADER) # 0

\* the last step was update_properties_block_preserve_format
Updated == applied >= 1 /\ impl \in {"tuning", "file_ops"}

\* a line that holds key=value: not blank, not a comment, not an introducer
IsPropertyLine(line) ==
    /\ ~is_comment_or_blank(strip(line))
    /\ In("=", strip(line))
    /\ ~is_override_intro(strip(line))

KeyOfLine(line) == strip(split1(strip(line), "=")[1])

\* indices of the property lines of a section that hold key k
LinesOfKey(sec, k) ==
    {i \in DOMAIN sec : IsPropertyLine(sec[i]) /\ KeyOfLine(sec[i]) = k}

\* keys that have a property line in a section
KeySet(sec) == {KeyOfLine(sec[i]) : i \in {j \in DOMAIN sec : IsPropertyLine(sec[j])}}

\* a mapping as a set of <<key, value>> pairs (dict equality ignores order)
AsSet(d) == {d[i] : i \in DOMAIN d}

(***************************************************************************)
(* C1: after an update of a located section, a key that had a property     *)
(* line in the original section and is absent from new_mapping has no      *)
(* property line in the output section.  Stated for a non-empty            *)
(* new_mapping, as in the a=1, b=2, {a: 5} example.                        *)
(***************************************************************************)
C1_AbsentKeysDeleted ==
    (Updated /\ Located /\ new_properties # <<>>) =>
        \A k \in KeySet(Section(original)) \ dict_keys(new_properties) :
            k \notin KeySet(Section(lines))

(***************************************************************************)
(* C2: round trip.  For a located section and a non-empty new_mapping,     *)
(* parse_properties_block of the updated section is exactly new_mapping.   *)
(* Stated for values without "#": the parser cuts a value at "#", so only  *)
(* such values can come back at all.                                       *)
(***************************************************************************)
\* no value of new_mapping contains "#"
PlainMapping == \A i \in DOMAIN new_properties : ~In("#", new_properties[i][2])

C2_RoundTrip ==
    (Updated /\ Located /\ parsed.done /\ new_properties # <<>> /\ PlainMapping) =>
        AsSet(parsed.props) = AsSet(new_properties)

(***************************************************************************)
(* C3: idempotence.  Applying the update a second time with the same       *)
(* mapping, header and terminators returns the first output unchanged.     *)
(***************************************************************************)
C3_Idempotent ==
    (impl \in {"tuning", "file_ops"} /\ applied >= 2) => lines = original

(***************************************************************************)
(* C4: non-interference.  When update_properties_block_preserve_format or  *)
(* replace_block locates a section [start, end), the output begins with    *)
(* the input's lines before start and ends with the input's lines from end *)
(* on; only the lines of the section may differ.                           *)
(***************************************************************************)
C4_NonInterference ==
    (applied >= 1 /\ Located) =>
        LET start == find_start(original, LMKD_HEADER)
            end == find_end(original, start, LMKD_NEXT)
            after == Len(original) - end + 1
        IN  /\ Len(lines) >= (start - 1) + after
            /\ SubSeq(lines, 1, start - 1) = SubSeq(original, 1, start - 1)
            /\ SubSeq(lines, Len(lines) - after + 1, Len(lines))
                   = SubSeq(original, end, Len(original))

\* a section with content before and after it was rewritten to another length
C4_Witness ==
    /\ applied >= 1
    /\ find_start(original, LMKD_HEADER) > 1
    /\ find_end(original, find_start(original, LMKD_HEADER), LMKD_NEXT)
           <= Len(original)
    /\ Len(lines) # Len(original)

(***************************************************************************)
(* Override groups of a section, as the file shows them                    *)
(***************************************************************************)
\* indices of the introducer lines of a section
IntroLines(sec) == {i \in DOMAIN sec : is_override_intro(strip(sec[i]))}

\* indices of the member lines of the group whose introducer precedes j:
\* property lines up to and including the first without a backslash, comments
\* and blank lines skipped, ended by any other line
RECURSIVE GroupMembers(_, _, _)
GroupMembers(sec, j, acc) ==
    IF j > Len(sec) THEN acc
    ELSE IF is_comment_or_blank(strip(sec[j])) THEN GroupMembers(sec, j + 1, acc)
    ELSE IF ~IsPropertyLine(sec[j]) THEN acc
    ELSE IF endswith(strip(sec[j]), BS) THEN GroupMembers(sec, j + 1, Append(acc, j))
    ELSE Append(acc, j)

\* indices of all lines that are members of some group of the section
AllMembers(sec) ==
    UNION {{GroupMembers(sec, i + 1, <<>>)[k] :
               k \in DOMAIN GroupMembers(sec, i + 1, <<>>)} : i \in IntroLines(sec)}

\* line ends with the text suffix
EndsWithText(line, suffix) ==
    /\ Len(line) >= Len(suffix)
    /\ SubSeq(line, Len(line) - Len(suffix) + 1, Len(line)) = suffix

\* every group: all members but the last end " \\\n", the last ends "\n"
\* with no backslash
ContinuationCorrect(sec) ==
    \A i \in IntroLines(sec) :
        LET m == GroupMembers(sec, i + 1, <<>>)
        IN  \A k \in DOMAIN m :
                IF k < Len(m) THEN EndsWithText(sec[m[k]], ContinuationEnd)
                ELSE /\ EndsWithText(sec[m[k]], NL)
                     /\ ~endswith(strip(sec[m[k]]), BS)

(***************************************************************************)
(* C5: continuation correctness.  After an update, in every override group *)
(* of the section with N >= 1 members the first N-1 member lines end with  *)
(* space, backslash, newline and the last ends with a newline and no       *)
(* backslash.  Stated for sections whose groups were so formed before the  *)
(* update.                                                                 *)
(***************************************************************************)
C5_ContinuationCorrect ==
    (Updated /\ Located /\ ContinuationCorrect(Section(original))) =>
        ContinuationCorrect(Section(lines))

(***************************************************************************)
(* C6: every comment line and blank line of the original section is        *)
(* replayed unchanged: the comment and blank lines of the output section   *)
(* are those of the original section, in the same order.                   *)
(***************************************************************************)
IsCommentOrBlankLine(line) == is_comment_or_blank(strip(line))

CommentLines(sec) == SelectSeq(Tail(sec), IsCommentOrBlankLine)

C6_CommentsReplayed ==
    (Updated /\ Located) =>
        CommentLines(Section(lines)) = CommentLines(Section(original))

(***************************************************************************)
(* C7: a key of new_mapping that already has a line is updated where it    *)
(* is, so the output section never has two property lines for one key of   *)
(* new_mapping.  Stated for sections in which no key had two lines before. *)
(***************************************************************************)
NoDuplicateKeys(sec) == \A k \in KeySet(sec) : Cardinality(LinesOfKey(sec, k)) = 1

C7_NoSecondLineForKey ==
    (Updated /\ Located /\ NoDuplicateKeys(Section(original))) =>
        \A k \in dict_keys(new_properties) :
            Cardinality(LinesOfKey(Section(lines), k)) <= 1

(***************************************************************************)
(* C8: a key of new_mapping with no line in the original section is        *)
(* appended as the last member(s) of the override group when the section   *)
(* has one; otherwise it becomes an ordinary line indent+key=value         *)
(* directly after the last property line, indented like the section's      *)
(* first property line, or by 4 spaces when there is none.  Stated for     *)
(* updates that leave one line per key of new_mapping (C7 is about the     *)
(* others).                                                                *)
(***************************************************************************)
\* the entries of new_mapping whose key has no line in the original section
NewKeyItems ==
    SelectSeq(new_properties, LAMBDA e : e[1] \notin KeySet(Section(original)))

\* the text key=value of a property line, continuation marker removed
KeyValueText(line) == member_content(strip(line))

\* the items are the last members of some override group of sec, in order
AppendedToGroup(sec, items) ==
    \E i \in IntroLines(sec) :
        LET m == GroupMembers(sec, i + 1, <<>>)
            n == Len(items)
        IN  /\ Len(m) >= n
            /\ \A j \in 1..n :
                   KeyValueText(sec[m[Len(m) - n + j]])
                       = items[j][1] \o <<"=">> \o items[j][2]

\* indentation of the first property line of sec, else 4 spaces
PrevailingIndent(sec) ==
    LET props == {i \in DOMAIN sec : IsPropertyLine(sec[i])}
    IN  IF props = {} THEN FourSpaces ELSE indent_of(sec[SetMin(props)])

\* the items are ordinary lines directly after the last other property line
AppendedAsOrdinary(sec, items, indent) ==
    \E p \in 1..(Len(sec) - Len(items)) :
        /\ \A j \in 1..Len(items) :
               sec[p + j] = indent \o items[j][1] \o <<"=">> \o items[j][2] \o NL
        /\ \A q \in (p + Len(items) + 1)..Len(sec) : ~IsPropertyLine(sec[q])
        /\ IsPropertyLine(sec[p]) \/ \A q \in 1..p : ~IsPropertyLine(sec[q])

\* no key of new_mapping has two property lines in the output section
OneLinePerMappedKey ==
    \A k \in dict_keys(new_properties) :
        Cardinality(LinesOfKey(Section(lines), k)) <= 1

C8_NewKeysAppended ==
    (Updated /\ Located /\ NewKeyItems # <<>> /\ OneLinePerMappedKey) =>
        IF IntroLines(Section(original)) # {}
        THEN AppendedToGroup(Section(lines), NewKeyItems)
        ELSE AppendedAsOrdinary(Section(lines), NewKeyItems,
                                PrevailingIndent(Section(original)))

(***************************************************************************)
(* C10: parse_properties_block takes an introducer line as the start of a  *)
(* continuation group, not as a property: no key of the result comes from  *)
(* the introducer, and each member of a well-formed group gives its key    *)
(* with a value that has no trailing backslash.                            *)
(***************************************************************************)
C10_ParserReadsGroups ==
    parsed.done =>
        LET sec == Section(lines)
        IN  /\ \A k \in dict_keys(parsed.props) : ~In(PPO, k)
            /\ (ContinuationCorrect(sec) /\ NoDuplicateKeys(sec)) =>
                   \A j \in AllMembers(sec) :
                       /\ dict_has(parsed.props, KeyOfLine(sec[j]))
                       /\ ~endswith(dict_get(parsed.props, KeyOfLine(sec[j])), BS)

(***************************************************************************)
(* C9: order preservation.  Keys that have a line before and after the     *)
(* update keep their relative order, and a newly added key comes after all *)
(* pre-existing keys of the group or ordinary region it is added to.       *)
(* Stated for sections in which no key had two lines before.               *)
(***************************************************************************)
\* 0 for an ordinary line, else the ordinal of the group the line is in
RegionOf(sec, idx) ==
    IF idx \in AllMembers(sec)
    THEN Cardinality({i \in IntroLines(sec) : i < idx})
    ELSE 0

\* regions of the original section in which key k had a line
RegionsOfKey(sec, k) == {RegionOf(sec, i) : i \in LinesOfKey(sec, k)}

\* position of the line of key k in a section with one line per key
PositionOfKey(sec, k) == SetMin(LinesOfKey(sec, k))

C9_OrderPreserved ==
    (Updated /\ Located /\ NoDuplicateKeys(Section(original))) =>
        LET old == Section(original)
            out == Section(lines)
            props == {i \in DOMAIN out : IsPropertyLine(out[i])}
        IN  \A q, r \in props :
                q < r =>
                    LET kq == KeyOfLine(out[q])
                        kr == KeyOfLine(out[r])
                    IN  /\ (kq \in KeySet(old) /\ kr \in KeySet(old) /\ kq # kr)
                               => PositionOfKey(old, kq) < PositionOfKey(old, kr)
                        /\ ~(/\ kq \notin KeySet(old)
                             /\ kr \in KeySet(old)
                             /\ RegionOf(out, q) = RegionOf(out, r)
                             /\ RegionOf(out, r) \in RegionsOfKey(old, kr))

(***************************************************************************)
(* Whole-file edits: apply_properties_to_file (tuning_process.py),         *)
(* update_properties_in_file and update_lmkd_chimera (file_operations.py)  *)
(***************************************************************************)
\* f.writelines(ls): the text of the file
RECURSIVE writelines(_)
writelines(ls) == IF ls = <<>> THEN <<>> ELSE Head(ls) \o writelines(Tail(ls))

\* f.readlines() of a file holding text: every line keeps its "\n", the last
\* line has none when the text does not end with one
readlines(text) ==
    LET n == Len(text)
        ends == {i \in 1..n : text[i] = "\n" \/ i = n}
        endAt(k) == CHOOSE e \in ends : Cardinality({x \in ends : x <= e}) = k
    IN  [k \in 1..Cardinality(ends) |->
            SubSeq(text, IF k = 1 THEN 1 ELSE endAt(k - 1) + 1, endAt(k))]

\* any("# LMKD property" in line for line in lines)
any_lmkd_in_line(ls) == \E i \in DOMAIN ls : InStr(LMKD_HEADER, ls[i])

\* the Chimera update is given the lines as read from the file
lines_as_read(read, updated) == read

\* "lines = update_properties_block_preserve_format(lines, ...)": the next
\* update works on what the previous one returned
rebind_lines(read, updated) == updated

\* tuning_process.py: the LMKD update with its fallback to the DHA header
tuning_lmkd_update(ls, props) ==
    IF props.LMKD = <<>> THEN ls
    ELSE LET u == tuning_update_properties_block_preserve_format(
                      ls, props.LMKD, LMKD_HEADER, LMKD_NEXT)
         IN  IF ~any_lmkd_in_line(u)
             THEN tuning_update_properties_block_preserve_format(
                      u, props.LMKD, DHA_HEADER, DHA_NEXT)
             ELSE u

\* the Chimera update is left out when the file has no LMKD header
tuning_chimera_update_needs_lmkd(ls, props) ==
    IF props.Chimera = <<>> \/ find_start(ls, LMKD_HEADER) = 0 THEN ls
    ELSE tuning_update_properties_block_preserve_format(
             ls, props.Chimera, CHIMERA_HEADER, CHIMERA_NEXT)

\* tuning_process.py: the Chimera update
tuning_chimera_update(ls, props) ==
    IF props.Chimera = <<>> THEN ls
    ELSE tuning_update_properties_block_preserve_format(
             ls, props.Chimera, CHIMERA_HEADER, CHIMERA_NEXT)

\* the line sequence apply_properties_to_file writes for a file read as ls
apply_properties_to_file(ls, props) ==
    tuning_chimera_update(rebind_lines(ls, tuning_lmkd_update(ls, props)), props)

\* file_operations.py: the LMKD update with its fallback to the DHA header
fileops_lmkd_update(ls, props) ==
    IF props.LMKD = <<>> THEN ls
    ELSE LET u == fileops_update_properties_block_preserve_format(
                      ls, props.LMKD, LMKD_HEADER, LMKD_NEXT)
         IN  IF ~any_lmkd_in_line(u)
             THEN fileops_update_properties_block_preserve_format(
                      u, props.LMKD, DHA_HEADER, DHA_NEXT)
             ELSE u

\* file_operations.py: the Chimera update
fileops_chimera_update(ls, props) ==
    IF props.Chimera = <<>> THEN ls
    ELSE fileops_update_properties_block_preserve_format(
             ls, props.Chimera, CHIMERA_HEADER, CHIMERA_NEXT)

\* the line sequence update_properties_in_file writes for a file read as ls
update_properties_in_file(ls, props) ==
    fileops_chimera_update(rebind_lines(ls, fileops_lmkd_update(ls, props)), props)

\* lmkd_block of update_lmkd_chimera: the reference's LMKD section, or its
\* DHA section when extract_block returned [] for the LMKD header
lmkd_block(vince) ==
    LET b == extract_block(vince, LMKD_HEADER, LMKD_NEXT)
    IN  IF b = <<>> THEN extract_block(vince, DHA_HEADER, DHA_NEXT) ELSE b

chimera_block(vince) == extract_block(vince, CHIMERA_HEADER, CHIMERA_NEXT)

\* updated_target after the first replace_block
bringup_lmkd_update(target_lines, vince) ==
    replace_block(target_lines, lmkd_block(vince), LMKD_HEADER, LMKD_NEXT)

\* updated_target after the second replace_block
bringup_chimera_update(ls, vince) ==
    replace_block(ls, chimera_block(vince), CHIMERA_HEADER, CHIMERA_NEXT)

\* the line sequence update_lmkd_chimera writes into the target file
update_lmkd_chimera(vince, target_lines) ==
    bringup_chimera_update(
        rebind_lines(target_lines, bringup_lmkd_update(target_lines, vince)),
        vince)

MaxFile == 3      \* lines of an edited file

\* lines the edited files are built from
FilePool ==
    { LMKD_HEADER \o NL,
      <<" ">> \o LMKD_HEADER \o <<" ", "\n">>,        \* the header, indented
      DHA_HEADER \o NL,
      CHIMERA_HEADER \o NL,
      LMKD_HEADER \o <<" ", "x", "\n">>,              \* a comment naming LMKD
      <<"x", "=", "9", "\n">>,
      <<"y", "=", "1", "\n">>,
      <<"\n">> }

TargetFiles == DistinctSeqs(FilePool, MaxFile)

\* reference files: each holds at least one of the categories
VinceFiles ==
    { <<LMKD_HEADER \o NL, <<"x", "=", "5", "\n">>,
        CHIMERA_HEADER \o NL, <<"y", "=", "6", "\n">>>>,
      <<DHA_HEADER \o NL, <<"x", "=", "5", "\n">>, <<"z", "=", "3", "\n">>,
        CHIMERA_HEADER \o NL, <<"y", "=", "6", "\n">>, <<"\n">>,
        <<"q", "=", "1", "\n">>>>,
      <<LMKD_HEADER \o NL, <<"x", "=", "5", "\n">>>>,
      <<<<"q", "=", "1", "\n">>, CHIMERA_HEADER \o NL, <<"y", "=", "6">>>> }

\* tables the tuning dialog hands over
PropertyTables ==
    [LMKD : {<<>>, <<<<<<"x">>, <<"5">>>>>>},
     Chimera : {<<>>, <<<<<<"y">>, <<"6">>>>>>}]

\* the calls of extract_block in the source, and one with the header among
\* its own terminators
ExtractCalls ==
    { <<LMKD_HEADER, LMKD_NEXT>>, <<DHA_HEADER, DHA_NEXT>>,
      <<CHIMERA_HEADER, CHIMERA_NEXT>>, <<DHA_HEADER, LMKD_NEXT>> }

InitEdit ==
    /\ lines \in TargetFiles
    /\ impl \in {"tuning", "file_ops", "bringup"}
    /\ properties_dict \in (IF impl = "bringup" THEN {NoProperties}
                                                ELSE PropertyTables)
    /\ vince_lines \in (IF impl = "bringup" THEN VinceFiles ELSE {<<>>})
    /\ new_properties = <<>>
    /\ original = lines
    /\ applied = 0
    /\ parsed = NotParsed
    /\ extracted = NotExtracted
    /\ NoIO
    /\ NoRun
    /\ NoGui

\* tuning_process.apply_properties_to_file on the file
ApplyPropertiesToFile ==
    /\ impl = "tuning"
    /\ applied = 0
    /\ lines' = apply_properties_to_file(lines, properties_dict)
    /\ original' = lines
    /\ applied' = 1
    /\ UNCHANGED <<new_properties, impl, parsed, file_vars, io_vars, run_vars, gui_vars>>

\* file_operations.update_properties_in_file on the file
UpdatePropertiesInFile ==
    /\ impl = "file_ops"
    /\ applied = 0
    /\ lines' = update_properties_in_file(lines, properties_dict)
    /\ original' = lines
    /\ applied' = 1
    /\ UNCHANGED <<new_properties, impl, parsed, file_vars, io_vars, run_vars, gui_vars>>

\* file_operations.update_lmkd_chimera on the target file
UpdateLmkdChimera ==
    /\ impl = "bringup"
    /\ applied = 0
    /\ lines' = update_lmkd_chimera(vince_lines, lines)
    /\ original' = lines
    /\ applied' = 1
    /\ UNCHANGED <<new_properties, impl, parsed, file_vars, io_vars, run_vars, gui_vars>>

\* one call of extract_block on the file as read
ExtractBlock ==
    /\ applied = 0
    /\ ~extracted.done
    /\ \E call \in ExtractCalls :
           extracted' = [done |-> TRUE,
                         start_header |-> call[1],
                         next_header_list |-> call[2],
                         out |-> extract_block(lines, call[1], call[2])]
    /\ UNCHANGED <<lines, new_properties, impl, original, applied, parsed,
                   properties_dict, vince_lines, io_vars, run_vars, gui_vars>>

NextEdit ==
    \/ ApplyPropertiesToFile
    \/ UpdatePropertiesInFile
    \/ UpdateLmkdChimera
    \/ ExtractBlock

SpecEdit == InitEdit /\ [][NextEdit]_vars

(***************************************************************************)
(* C11: extract_block returns lines[start:end], start the first line whose *)
(* trimmed text equals the header, end the first line after start whose    *)
(* trimmed text is one of the terminators, or the end of the file when     *)
(* there is none; the header line is never taken as the terminator; a      *)
(* blank or bare "#" line ends the section when "" or "#" is a terminator. *)
(***************************************************************************)
\* indices of the lines of ls whose trimmed text is h
LinesEqual(ls, h) == {i \in DOMAIN ls : strip(ls[i]) = h}

\* indices of the lines of ls whose trimmed text is in the set nx
LinesAmong(ls, nx) == {i \in DOMAIN ls : strip(ls[i]) \in nx}

C11_ExtractBlock ==
    extracted.done =>
        LET h == extracted.start_header
            nx == extracted.next_header_list
            heads == LinesEqual(original, h)
        IN  IF heads = {} THEN extracted.out = <<>>
            ELSE \E s \in heads, e \in 1..(Len(original) + 1) :
                     /\ \A i \in heads : s <= i
                     /\ e > s
                     /\ e = Len(original) + 1 \/ e \in LinesAmong(original, nx)
                     /\ \A j \in (s + 1)..(e - 1) : j \notin LinesAmong(original, nx)
                     /\ extracted.out = SubSeq(original, s, e - 1)

\* a section of two lines or more that a terminator line ends
C11_Witness ==
    /\ extracted.done
    /\ Len(extracted.out) >= 2
    /\ Len(extracted.out) < Len(original)
    /\ strip(original[Len(original)]) \in extracted.next_header_list

(***************************************************************************)
(* C12: an update whose header no line has, trimmed, returns the lines     *)
(* unchanged, and the update of the other category in the same call is     *)
(* still applied to the file.                                              *)
(***************************************************************************)
Has(ls, h) == LinesEqual(ls, h) # {}

\* what the call would write if it updated the Chimera section only
ChimeraOnly ==
    CASE impl = "tuning" ->
             tuning_update_properties_block_preserve_format(
                 original, properties_dict.Chimera, CHIMERA_HEADER, CHIMERA_NEXT)
      [] impl = "file_ops" ->
             fileops_update_properties_block_preserve_format(
                 original, properties_dict.Chimera, CHIMERA_HEADER, CHIMERA_NEXT)
      [] OTHER ->
             replace_block(original, chimera_block(vince_lines),
                           CHIMERA_HEADER, CHIMERA_NEXT)

\* what the call would write if it updated the LMKD section only
LmkdOnly ==
    CASE impl = "tuning" -> tuning_lmkd_update(original, properties_dict)
      [] impl = "file_ops" -> fileops_lmkd_update(original, properties_dict)
      [] OTHER -> replace_block(original, lmkd_block(vince_lines),
                                LMKD_HEADER, LMKD_NEXT)

\* the call was given something to write for both categories
BothCategories ==
    IF impl = "bringup" THEN TRUE
    ELSE properties_dict.LMKD # <<>> /\ properties_dict.Chimera # <<>>

C12_HeaderNotFoundIsNoOp ==
    (applied = 1 /\ BothCategories) =>
        /\ (~Has(original, LMKD_HEADER)
            /\ (impl = "bringup" \/ ~Has(original, DHA_HEADER)))
               => lines = ChimeraOnly
        /\ ~Has(original, CHIMERA_HEADER) => lines = LmkdOnly
        /\ (~Has(original, LMKD_HEADER) /\ ~Has(original, DHA_HEADER)
            /\ ~Has(original, CHIMERA_HEADER)) => lines = original

\* no LMKD or DHA header, and the Chimera section was rewritten
C12_Witness ==
    /\ applied = 1
    /\ BothCategories
    /\ impl = "tuning"
    /\ ~Has(original, LMKD_HEADER)
    /\ ~Has(original, DHA_HEADER)
    /\ Has(original, CHIMERA_HEADER)
    /\ lines # original

(***************************************************************************)
(* C13: DHA fallback.  When apply_properties_to_file or                    *)
(* update_properties_in_file edits a file that has no line whose trimmed   *)
(* text is "# LMKD property" but has a "# DHA property" section, the LMKD  *)
(* mapping is applied to that section: a key the section holds takes the   *)
(* new value, whatever other lines the file contains.                      *)
(***************************************************************************)
DhaSection(ls) == extract_block(ls, DHA_HEADER, DHA_NEXT)

\* every line of key k in sec reads k=v, and there is one
KeyHasValue(sec, k, v) ==
    /\ LinesOfKey(sec, k) # {}
    /\ \A i \in LinesOfKey(sec, k) : KeyValueText(sec[i]) = k \o <<"=">> \o v

C13_DhaFallback ==
    (/\ applied = 1
     /\ impl \in {"tuning", "file_ops"}
     /\ properties_dict.LMKD # <<>>
     /\ ~Has(original, LMKD_HEADER)
     /\ Has(original, DHA_HEADER)) =>
        \A e \in AsSet(properties_dict.LMKD) :
            LinesOfKey(DhaSection(original), e[1]) # {}
                => KeyHasValue(DhaSection(lines), e[1], e[2])

(***************************************************************************)
(* C14: when one call updates the LMKD section and then the Chimera        *)
(* section, the Chimera section is located in the lines the LMKD rewrite   *)
(* produced: everything before its start and from its end on, as found in  *)
(* those lines, is in the output unchanged, also when the LMKD rewrite     *)
(* changed the number of lines.                                            *)
(***************************************************************************)
\* start of the Chimera section of ls (ls has one)
ChimeraStart(ls) == SetMin(LinesEqual(ls, CHIMERA_HEADER))

\* end of the Chimera section of ls: its terminator line, or Len(ls) + 1
ChimeraEnd(ls) ==
    LET after == {j \in LinesAmong(ls, CHIMERA_NEXT) : j > ChimeraStart(ls)}
    IN  IF after = {} THEN Len(ls) + 1 ELSE SetMin(after)

C14_ChimeraLocatedAfterLmkd ==
    (applied = 1 /\ BothCategories /\ Has(LmkdOnly, CHIMERA_HEADER)) =>
        LET mid == LmkdOnly
            s == ChimeraStart(mid)
            rest == Len(mid) - ChimeraEnd(mid) + 1
        IN  /\ Len(lines) >= s - 1 + rest
            /\ SubSeq(lines, 1, s - 1) = SubSeq(mid, 1, s - 1)
            /\ SubSeq(lines, Len(lines) - rest + 1, Len(lines))
                   = SubSeq(mid, ChimeraEnd(mid), Len(mid))

\* the LMKD rewrite changed the length of the file in front of the Chimera
\* section, and the Chimera section was rewritten too
C14_Witness ==
    /\ applied = 1
    /\ BothCategories
    /\ Has(original, LMKD_HEADER)
    /\ Has(original, CHIMERA_HEADER)
    /\ ChimeraStart(LmkdOnly) # ChimeraStart(original)
    /\ lines # LmkdOnly

(***************************************************************************)
(* C15: after update_lmkd_chimera the LMKD section (header "# LMKD         *)
(* property" or its synonym "# DHA property") and the Chimera section      *)
(* extracted from the target file equal, line for line, the sections       *)
(* extracted from the reference file, for every target that holds the      *)
(* category under either header.                                           *)
(***************************************************************************)
\* the target file as it is read back after the call
TargetAfter == readlines(writelines(lines))

C15_TargetMatchesReference ==
    (applied = 1 /\ impl = "bringup") =>
        /\ (Has(original, LMKD_HEADER) \/ Has(original, DHA_HEADER))
               => lmkd_block(TargetAfter) = lmkd_block(vince_lines)
        /\ Has(original, CHIMERA_HEADER)
               => chimera_block(TargetAfter) = chimera_block(vince_lines)

(***************************************************************************)
(* An edit call, statement by statement, on a file system that can fail:   *)
(* apply_properties_to_file, update_properties_in_file (backup, read,      *)
(* update, open for writing, write) and update_lmkd_chimera (read, update, *)
(* backup, open for writing, write).                                       *)
(***************************************************************************)
MaxEdits == 2     \* edit calls made on the target file
MaxClock == 1     \* seconds that can pass while the calls are made

NoBackup == 0 - 1

\* an edit that skips its backup statement
step_after_without_backup(fn, s) ==
    IF fn = "bringup"
    THEN CASE s = "start" -> "read"
           [] s = "read" -> "transform"
           [] s = "transform" -> "open"
           [] s = "open" -> "write"
           [] OTHER -> "idle"
    ELSE CASE s = "start" -> "read"
           [] s = "read" -> "transform"
           [] s = "transform" -> "open"
           [] s = "open" -> "write"
           [] OTHER -> "idle"

\* the statement that follows statement s in edit function fn
step_after(fn, s) ==
    IF fn = "bringup"
    THEN CASE s = "start" -> "read"
           [] s = "read" -> "transform"
           [] s = "transform" -> "backup"
           [] s = "backup" -> "open"
           [] s = "open" -> "write"
           [] OTHER -> "idle"
    ELSE CASE s = "start" -> "backup"
           [] s = "backup" -> "read"
           [] s = "read" -> "transform"
           [] s = "transform" -> "open"
           [] s = "open" -> "write"
           [] OTHER -> "idle"

\* the lines an edit function computes from the lines it read
transform(fn, ls, props, vince) ==
    CASE fn = "tuning" -> apply_properties_to_file(ls, props)
      [] fn = "file_ops" -> update_properties_in_file(ls, props)
      [] OTHER -> update_lmkd_chimera(vince, ls)

\* the record kept of an edit call
NewEdit(fn, content) ==
    [fn |-> fn, before |-> content, backup_path |-> NoBackup,
     opened |-> FALSE, status |-> "running", failed_at |-> "none"]

\* the running call fails at statement s
FailAt(s) ==
    /\ edits' = [edits EXCEPT ![Len(edits)].status = "failed",
                              ![Len(edits)].failed_at = s]
    /\ pc' = "idle"

IOFiles ==
    { <<LMKD_HEADER \o NL, <<"x", "=", "9", "\n">>,
        CHIMERA_HEADER \o NL, <<"y", "=", "1", "\n">>>>,
      <<DHA_HEADER \o NL, <<"x", "=", "9", "\n">>>> }

IOTables ==
    { [LMKD |-> <<<<<<"x">>, <<"5">>>>>>, Chimera |-> <<<<<<"y">>, <<"6">>>>>>],
      [LMKD |-> <<<<<<"z">>, <<"3">>>>>>, Chimera |-> <<>>] }

IOVince ==
    { <<LMKD_HEADER \o NL, <<"x", "=", "5", "\n">>,
        CHIMERA_HEADER \o NL, <<"y", "=", "6", "\n">>>>,
      <<LMKD_HEADER \o NL, <<"x", "=", "7", "\n">>, <<"z", "=", "3", "\n">>>> }

InitIO ==
    /\ disk \in IOFiles
    /\ backups = <<>>
    /\ clock = 0
    /\ pc = "idle"
    /\ edits = <<>>
    /\ lines = <<>>
    /\ impl = "none"
    /\ properties_dict = NoProperties
    /\ vince_lines = <<>>
    /\ applied = 0
    /\ new_properties = <<>>
    /\ original = <<>>
    /\ parsed = NotParsed
    /\ extracted = NotExtracted
    /\ NoRun
    /\ NoGui

\* what no statement of an edit call changes
io_frame == <<new_properties, original, parsed, extracted, run_vars, gui_vars>>

\* a caller starts one of the three edit functions on the target file
StartEdit ==
    /\ pc = "idle"
    /\ applied < MaxEdits
    /\ \E fn \in {"tuning", "file_ops", "bringup"} :
           /\ impl' = fn
           /\ properties_dict' \in (IF fn = "bringup" THEN {NoProperties}
                                                      ELSE IOTables)
           /\ vince_lines' \in (IF fn = "bringup" THEN IOVince ELSE {<<>>})
           /\ pc' = step_after(fn, "start")
           /\ edits' = Append(edits, NewEdit(fn, disk))
    /\ lines' = <<>>
    /\ applied' = applied + 1
    /\ UNCHANGED <<disk, backups, clock, io_frame>>

\* shutil.copyfile(path, path + ".bak_" + timestamp)
Backup ==
    /\ pc = "backup"
    /\ \/ /\ backups' = dict_set(backups, clock, disk)
          /\ edits' = [edits EXCEPT ![Len(edits)].backup_path = clock]
          /\ pc' = step_after(impl, "backup")
       \/ /\ FailAt("backup")         \* the source cannot be opened
          /\ backups' = backups
       \/ /\ FailAt("backup")         \* the copy breaks off
          /\ \E k \in 0..(Len(disk) - 1) :
                 backups' = dict_set(backups, clock, SubSeq(disk, 1, k))
    /\ UNCHANGED <<disk, clock, lines, impl, properties_dict, vince_lines,
                   applied, io_frame>>

\* open(path, "r") and f.readlines()
Read ==
    /\ pc = "read"
    /\ \/ /\ lines' = disk
          /\ pc' = step_after(impl, "read")
          /\ edits' = edits
       \/ /\ FailAt("read")
          /\ lines' = lines
    /\ UNCHANGED <<disk, backups, clock, impl, properties_dict, vince_lines,
                   applied, io_frame>>

\* the section updates, in memory
Transform ==
    /\ pc = "transform"
    /\ lines' = transform(impl, lines, properties_dict, vince_lines)
    /\ pc' = step_after(impl, "transform")
    /\ UNCHANGED <<disk, backups, clock, edits, impl, properties_dict,
                   vince_lines, applied, io_frame>>

\* open(path, "w"): the file is truncated when the open succeeds
OpenForWrite ==
    /\ pc = "open"
    /\ \/ /\ disk' = <<>>
          /\ edits' = [edits EXCEPT ![Len(edits)].opened = TRUE]
          /\ pc' = step_after(impl, "open")
       \/ /\ FailAt("open")
          /\ disk' = disk
    /\ UNCHANGED <<backups, clock, lines, impl, properties_dict, vince_lines,
                   applied, io_frame>>

\* f.writelines(lines) and the close of the file
Write ==
    /\ pc = "write"
    /\ \/ /\ disk' = lines
          /\ edits' = [edits EXCEPT ![Len(edits)].status = "ok"]
          /\ pc' = step_after(impl, "write")
       \/ /\ FailAt("write")
          /\ \E k \in 0..(Len(lines) - 1) : disk' = SubSeq(lines, 1, k)
    /\ UNCHANGED <<backups, clock, lines, impl, properties_dict, vince_lines,
                   applied, io_frame>>

\* a second passes
Tick ==
    /\ clock < MaxClock
    /\ clock' = clock + 1
    /\ UNCHANGED <<disk, backups, pc, edits, lines, impl, properties_dict,
                   vince_lines, applied, io_frame>>

NextIO ==
    \/ StartEdit
    \/ Backup
    \/ Read
    \/ Transform
    \/ OpenForWrite
    \/ Write
    \/ Tick

SpecIO == InitIO /\ [][NextIO]_vars

(***************************************************************************)
(* C16: in every edit the backup copy is created before the target file is *)
(* opened for writing, and when creating the backup fails the target file  *)
(* is not written in that call.                                            *)
(***************************************************************************)
C16_BackupBeforeWrite ==
    \A i \in DOMAIN edits :
        /\ edits[i].opened => edits[i].backup_path # NoBackup
        /\ edits[i].failed_at = "backup" => ~edits[i].opened
        /\ (i = Len(edits) /\ edits[i].failed_at = "backup")
               => disk = edits[i].before

\* update_lmkd_chimera has made its backup and opened the target; an
\* earlier call failed at its backup
C16_Witness ==
    /\ Len(edits) = 2
    /\ edits[1].failed_at = "backup"
    /\ edits[2].fn = "bringup"
    /\ edits[2].opened

(***************************************************************************)
(* C17: after any sequence of edits of one file every edit has its own     *)
(* backup file, holding the content the file had just before that edit; a  *)
(* later edit never overwrites the backup of an earlier one, also when two *)
(* edits of the path start within the same clock second.                   *)
(***************************************************************************)
C17_OneBackupPerEdit ==
    pc = "idle" =>
        \A i \in DOMAIN edits :
            edits[i].backup_path # NoBackup =>
                /\ dict_has(backups, edits[i].backup_path)
                /\ dict_get(backups, edits[i].backup_path) = edits[i].before
                /\ \A j \in DOMAIN edits :
                       j # i => edits[j].backup_path # edits[i].backup_path

(***************************************************************************)
(* C18: all-or-nothing edit.  When a call of apply_properties_to_file or   *)
(* update_lmkd_chimera is over, the target holds the complete new line     *)
(* sequence, or the call failed and the target's content is what it was    *)
(* before the call; no failure leaves a truncated or partly written file.  *)
(***************************************************************************)
C18_AllOrNothing ==
    (pc = "idle" /\ edits # <<>> /\ edits[Len(edits)].fn \in {"tuning", "bringup"}) =>
        LET e == edits[Len(edits)]
        IN  \/ e.status = "ok" /\ disk = lines
            \/ e.status = "failed" /\ disk = e.before

(***************************************************************************)
(* The workflows run_bringup_process (bringup_process.py),                 *)
(* run_tuning_process and load_properties_for_tuning (tuning_process.py),  *)
(* statement by statement.  A version-control command, depot_to_local_path *)
(* and update_lmkd_chimera either return or raise; the validations and     *)
(* apply_properties_to_file catch their own exceptions and return a value. *)
(* The callbacks are given and do not raise.  trace records, in order,     *)
(* every command a run has issued and every file operation it has made.    *)
(***************************************************************************)
\* what no statement of a workflow changes
run_frame ==
    <<lines, new_properties, impl, original, applied, parsed, properties_dict,
      extracted, io_vars, gui_vars>>

first_statement(p) ==
    CASE p = "bringup" -> "validate_vince"
      [] p = "tuning" -> "t_paths"
      [] OTHER -> "l_beni"

MaxRef == 2       \* lines of the reference file a bringup run syncs

\* the reference files a sync can deliver
RunVince == DistinctSeqs(FilePool, MaxRef)

InitRun ==
    /\ proc \in {"bringup", "tuning", "load"}
    /\ rpc = first_statement(proc)
    /\ process_beni = FALSE
    /\ process_flumen = FALSE
    /\ files_updated = {}
    /\ error_calls = 0
    /\ error_titles = <<>>
    /\ progress_calls = <<>>
    /\ step_failed = FALSE
    /\ outcome = "running"
    /\ trace = <<>>
    /\ has_lmkd = FALSE
    /\ has_chimera = FALSE
    /\ lines = <<>>
    /\ new_properties = <<>>
    /\ impl = "none"
    /\ original = <<>>
    /\ applied = 0
    /\ parsed = NotParsed
    /\ NoFileEdit
    /\ NoIO
    /\ NoGui

\* one command or file operation, and whether it returned normally (for
\* "files": whether the path exists)
Event(op, on, ok) == [op |-> op, on |-> on, ok |-> ok]

\* the version-control commands that change the depot or the workspace, and
\* the two that only print a form
VcsOps == {"change_o", "change_i", "client_o", "client_i", "sync", "edit"}

\* the commands of a step, all of which returned
Ran(cmds) == [i \in DOMAIN cmds |-> Event(cmds[i][1], cmds[i][2], TRUE)]

\* the commands of a step up to the k-th, which failed
FailedAt(cmds, k) ==
    SubSeq(Ran(cmds), 1, k - 1) \o <<Event(cmds[k][1], cmds[k][2], FALSE)>>

\* "if process_beni: ... if process_flumen: ...": the targets a step works on
processed_targets_all(pb, pf) == <<"BENI", "FLUMEN">>

processed_targets(pb, pf) ==
    (IF pb THEN <<"BENI">> ELSE <<>>) \o (IF pf THEN <<"FLUMEN">> ELSE <<>>)

\* one command per target
ForTargets(op, pb, pf) ==
    LET ts == processed_targets(pb, pf)
    IN  [i \in DOMAIN ts |-> <<op, ts[i]>>]

\* progress_callback(100 - v)
ProgressRemaining(v) == progress_calls' = Append(progress_calls, 100 - v)

\* progress_callback(v)
Progress(v) == progress_calls' = Append(progress_calls, v)

\* the statement after "return" is never reached
fall_through(next) == next

\* "return": the run is over
return_from(next) == "done"

\* error_callback(title, message) followed by return; next is the statement
\* the return keeps the run from reaching
ErrorAndReturn(title, next) ==
    /\ error_calls' = error_calls + 1
    /\ error_titles' = Append(error_titles, title)
    /\ step_failed' = TRUE
    /\ rpc' = return_from(next)
    /\ outcome' = "returned"

\* the exception is dropped and the run goes on at the next statement
after_failure_ignored(next) == next

\* an exception inside the try block: control goes to the except clause
after_failure(next) == "except"

\* a statement that issues no command raises
Raise ==
    /\ rpc' = "except"
    /\ step_failed' = TRUE
    /\ UNCHANGED <<proc, process_beni, process_flumen, files_updated,
                   error_calls, error_titles, progress_calls, outcome, trace,
                   has_lmkd, has_chimera, vince_lines>>

\* the statement is done, the workflow goes on at statement s
Goto(s) ==
    /\ rpc' = s
    /\ UNCHANGED <<proc, outcome>>

NoProgress == 0 - 1

\* the commands cmds are issued in order; all return, and the progress value
\* v (if any) is reported, or one of them raises and the rest is not issued
RunCommands(cmds, next, v) ==
    /\ \/ /\ trace' = trace \o Ran(cmds)
          /\ Goto(next)
          /\ IF v = NoProgress THEN UNCHANGED progress_calls ELSE Progress(v)
          /\ UNCHANGED step_failed
       \/ \E k \in DOMAIN cmds :
              /\ trace' = trace \o FailedAt(cmds, k)
              /\ Goto(after_failure(next))
              /\ step_failed' = TRUE
              /\ UNCHANGED progress_calls
    /\ UNCHANGED <<process_beni, process_flumen, files_updated, error_calls,
                   error_titles, has_lmkd, has_chimera, vince_lines>>

\* ---- run_bringup_process ----
\* validate_depot_path(vince_depot_path)
ValidateVince ==
    /\ proc = "bringup" /\ rpc = "validate_vince"
    /\ \/ /\ trace' = Append(trace, Event("files", "VINCE", TRUE))
          /\ Goto("check_beni")
          /\ UNCHANGED <<error_calls, error_titles, step_failed>>
       \/ /\ trace' = Append(trace, Event("files", "VINCE", FALSE))
          /\ ErrorAndReturn("Path Not Found", "check_beni")
          /\ UNCHANGED proc
    /\ UNCHANGED <<process_beni, process_flumen, files_updated, progress_calls,
                   has_lmkd, has_chimera, vince_lines, run_frame>>

\* the optional BENI path: not given, given and found, or given and not
\* found
CheckBeni ==
    /\ proc = "bringup" /\ rpc = "check_beni"
    /\ \/ /\ process_beni' = FALSE
          /\ UNCHANGED trace
       \/ \E exists \in BOOLEAN :
              /\ process_beni' = exists
              /\ trace' = Append(trace, Event("files", "BENI", exists))
    /\ Goto("check_flumen")
    /\ UNCHANGED <<process_flumen, files_updated, error_calls, error_titles,
                   progress_calls, step_failed, has_lmkd, has_chimera,
                   vince_lines, run_frame>>

\* the optional FLUMEN path, then "if not process_beni and not process_flumen"
CheckFlumen ==
    /\ proc = "bringup" /\ rpc = "check_flumen"
    /\ \E given, exists \in BOOLEAN :
           /\ given \/ ~exists
           /\ process_flumen' = exists
           /\ trace' = IF given
                       THEN Append(trace, Event("files", "FLUMEN", exists))
                       ELSE trace
           /\ IF ~process_beni /\ ~exists
              THEN /\ ErrorAndReturn("No Valid Targets", "local_paths")
                   /\ UNCHANGED proc
              ELSE /\ Goto("local_paths")
                   /\ UNCHANGED <<error_calls, error_titles, step_failed>>
    /\ UNCHANGED <<process_beni, files_updated, progress_calls, has_lmkd,
                   has_chimera, vince_lines, run_frame>>

\* depot_to_local_path for VINCE and the targets, then progress_callback(10)
LocalPaths ==
    /\ proc = "bringup" /\ rpc = "local_paths"
    /\ \/ /\ Goto("create_changelist")
          /\ Progress(10)
          /\ UNCHANGED <<process_beni, process_flumen, files_updated,
                         error_calls, error_titles, step_failed, trace,
                         has_lmkd, has_chimera, vince_lines>>
       \/ Raise
    /\ UNCHANGED run_frame

\* create_changelist(log_callback): "p4 change -o", "p4 change -i"
CreateChangelist ==
    /\ proc = "bringup" /\ rpc = "create_changelist"
    /\ RunCommands(<<<<"change_o", "-">>, <<"change_i", "-">>>>, "map_client", 20)
    /\ UNCHANGED run_frame

\* map_client or map_client_two_paths: get_client_name, "p4 client -o",
\* "p4 client -i"
MapClient ==
    /\ proc = "bringup" /\ rpc = "map_client"
    /\ \/ RunCommands(<<<<"client_o", "-">>, <<"client_i", "-">>>>, "sync", 35)
       \/ Raise
    /\ UNCHANGED run_frame

\* sync_file for VINCE and the targets; the reference file is then on disk
SyncFiles ==
    /\ proc = "bringup" /\ rpc = "sync"
    /\ LET cmds == <<<<"sync", "VINCE">>>>
                   \o ForTargets("sync", process_beni, process_flumen)
       IN  \/ /\ trace' = trace \o Ran(cmds)
              /\ vince_lines' \in RunVince
              /\ Goto("validate_properties")
              /\ UNCHANGED step_failed
           \/ \E k \in DOMAIN cmds :
                  /\ trace' = trace \o FailedAt(cmds, k)
                  /\ Goto(after_failure("validate_properties"))
                  /\ step_failed' = TRUE
                  /\ UNCHANGED vince_lines
    /\ UNCHANGED <<process_beni, process_flumen, files_updated, error_calls,
                   error_titles, progress_calls, has_lmkd, has_chimera,
                   run_frame>>

\* "# LMKD property" in content, for the text of a file
in_content(h, ls) == InStr(h, writelines(ls))

\* validate_properties_exist(file_path) for a file that reads as ls
validate_properties_exist(ls) ==
    [has_lmkd |-> in_content(LMKD_HEADER, ls) \/ in_content(DHA_HEADER, ls),
     has_chimera |-> in_content(CHIMERA_HEADER, ls)]

\* validate_properties_exist(vince_local) and the tests on its result; the
\* function returns (False, False) when the file cannot be read
ValidateProperties ==
    /\ proc = "bringup" /\ rpc = "validate_properties"
    /\ \E readable \in BOOLEAN :
           LET r == IF readable THEN validate_properties_exist(vince_lines)
                    ELSE [has_lmkd |-> FALSE, has_chimera |-> FALSE]
           IN  /\ has_lmkd' = r.has_lmkd
               /\ has_chimera' = r.has_chimera
               /\ trace' = Append(trace, Event("read", "VINCE", readable))
               /\ IF ~r.has_lmkd /\ ~r.has_chimera
                  THEN /\ ErrorAndReturn("Properties Not Found", "checkout")
                       /\ UNCHANGED <<proc, progress_calls>>
                  ELSE /\ Goto("checkout")
                       /\ Progress(60)
                       /\ UNCHANGED <<error_calls, error_titles, step_failed>>
    /\ UNCHANGED <<process_beni, process_flumen, files_updated, vince_lines,
                   run_frame>>

\* checkout_file for the targets
Checkout ==
    /\ proc = "bringup" /\ rpc = "checkout"
    /\ RunCommands(ForTargets("edit", process_beni, process_flumen),
                   "update_targets", 80)
    /\ UNCHANGED run_frame

\* the file operations of update_lmkd_chimera on one target
UpdateCommands(t) ==
    <<<<"read", "VINCE">>, <<"read", t>>, <<"backup", t>>, <<"write", t>>>>

\* update_lmkd_chimera for the targets
UpdateTargets ==
    /\ proc = "bringup" /\ rpc = "update_targets"
    /\ LET cmds == (IF process_beni THEN UpdateCommands("BENI") ELSE <<>>)
                   \o (IF process_flumen THEN UpdateCommands("FLUMEN") ELSE <<>>)
       IN  \/ /\ trace' = trace \o Ran(cmds)
              /\ rpc' = "done"
              /\ outcome' = "returned"
              /\ Progress(100)
              /\ UNCHANGED <<proc, step_failed>>
           \/ \E k \in DOMAIN cmds :
                  /\ trace' = trace \o FailedAt(cmds, k)
                  /\ Goto(after_failure("done"))
                  /\ step_failed' = TRUE
                  /\ UNCHANGED progress_calls
    /\ UNCHANGED <<process_beni, process_flumen, files_updated, error_calls,
                   error_titles, has_lmkd, has_chimera, vince_lines, run_frame>>

\* ---- run_tuning_process ----
\* process_beni, process_flumen from the paths given
TuningPaths ==
    /\ proc = "tuning" /\ rpc = "t_paths"
    /\ \E b, f \in BOOLEAN :
           /\ process_beni' = b
           /\ process_flumen' = f
           /\ IF ~b /\ ~f
              THEN /\ ErrorAndReturn("No Valid Paths", "t_changelist")
                   /\ UNCHANGED <<proc, progress_calls>>
              ELSE /\ Goto("t_changelist")
                   /\ Progress(10)
                   /\ UNCHANGED <<error_calls, error_titles, step_failed>>
    /\ UNCHANGED <<files_updated, trace, has_lmkd, has_chimera, vince_lines,
                   run_frame>>

\* create_changelist_for_tuning()
TuningChangelist ==
    /\ proc = "tuning" /\ rpc = "t_changelist"
    /\ RunCommands(<<<<"change_o", "-">>, <<"change_i", "-">>>>, "t_checkout", 30)
    /\ UNCHANGED run_frame

\* checkout_file_silent for the targets
TuningCheckout ==
    /\ proc = "tuning" /\ rpc = "t_checkout"
    /\ RunCommands(ForTargets("edit", process_beni, process_flumen),
                   "t_apply_beni", 50)
    /\ UNCHANGED run_frame

\* the file operations of apply_properties_to_file on one target
ApplyCommands(t) == <<<<"backup", t>>, <<"read", t>>, <<"write", t>>>>

\* apply_properties_to_file(local, properties) on target t: it returns True,
\* or one of its file operations raises and it returns False
Apply(t) ==
    \/ /\ trace' = trace \o Ran(ApplyCommands(t))
       /\ files_updated' = files_updated \cup {t}
       /\ UNCHANGED step_failed
    \/ \E k \in DOMAIN ApplyCommands(t) :
           /\ trace' = trace \o FailedAt(ApplyCommands(t), k)
           /\ step_failed' = TRUE
           /\ UNCHANGED files_updated

\* "if process_beni: ... if apply_properties_to_file(beni_local, properties)"
TuningApplyBeni ==
    /\ proc = "tuning" /\ rpc = "t_apply_beni"
    /\ IF ~process_beni
       THEN /\ Goto("t_apply_flumen")
            /\ UNCHANGED <<files_updated, step_failed, process_beni,
                           process_flumen, error_calls, error_titles,
                           progress_calls, trace, has_lmkd, has_chimera,
                           vince_lines>>
       ELSE \/ /\ Goto("t_apply_flumen")
               /\ Apply("BENI")
               /\ UNCHANGED <<process_beni, process_flumen, error_calls,
                              error_titles, progress_calls, has_lmkd,
                              has_chimera, vince_lines>>
            \/ Raise                           \* depot_to_local_path
    /\ UNCHANGED run_frame

\* the same for FLUMEN, then progress_callback(80)
TuningApplyFlumen ==
    /\ proc = "tuning" /\ rpc = "t_apply_flumen"
    /\ IF ~process_flumen
       THEN /\ Goto("t_report")
            /\ Progress(80)
            /\ UNCHANGED <<files_updated, step_failed, process_beni,
                           process_flumen, error_calls, error_titles, trace,
                           has_lmkd, has_chimera, vince_lines>>
       ELSE \/ /\ Goto("t_report")
               /\ Progress(80)
               /\ Apply("FLUMEN")
               /\ UNCHANGED <<process_beni, process_flumen, error_calls,
                              error_titles, has_lmkd, has_chimera, vince_lines>>
            \/ Raise                           \* depot_to_local_path
    /\ UNCHANGED run_frame

\* "if files_updated: info_callback(...) else: error_callback(...)", then
\* progress_callback(100)
TuningReport ==
    /\ proc = "tuning" /\ rpc = "t_report"
    /\ error_calls' = IF files_updated # {} THEN error_calls ELSE error_calls + 1
    /\ error_titles' = IF files_updated # {} THEN error_titles
                       ELSE Append(error_titles, "Update Failed")
    /\ Progress(100)
    /\ rpc' = "done"
    /\ outcome' = "returned"
    /\ UNCHANGED <<proc, process_beni, process_flumen, files_updated,
                   step_failed, trace, has_lmkd, has_chimera, vince_lines,
                   run_frame>>

\* ---- load_properties_for_tuning ----
\* the BENI path: not given, given and found, or given and not found
LoadBeni ==
    /\ proc = "load" /\ rpc = "l_beni"
    /\ \/ /\ Goto("l_flumen")
          /\ process_beni' = FALSE
          /\ UNCHANGED <<error_calls, error_titles, step_failed, trace>>
       \/ /\ Goto("l_flumen")
          /\ process_beni' = TRUE
          /\ trace' = Append(trace, Event("files", "BENI", TRUE))
          /\ UNCHANGED <<error_calls, error_titles, step_failed>>
       \/ /\ ErrorAndReturn("Path Not Found", "l_flumen")
          /\ trace' = Append(trace, Event("files", "BENI", FALSE))
          /\ UNCHANGED <<proc, process_beni>>
    /\ UNCHANGED <<process_flumen, files_updated, progress_calls, has_lmkd,
                   has_chimera, vince_lines, run_frame>>

\* the FLUMEN path, then "if not process_beni and not process_flumen"
LoadFlumen ==
    /\ proc = "load" /\ rpc = "l_flumen"
    /\ \/ /\ process_flumen' = FALSE           \* not given
          /\ UNCHANGED trace
          /\ IF ~process_beni
             THEN /\ ErrorAndReturn("No Valid Paths", "l_map_sync")
                  /\ UNCHANGED <<proc, progress_calls>>
             ELSE /\ Goto("l_map_sync")
                  /\ Progress(20)
                  /\ UNCHANGED <<error_calls, error_titles, step_failed>>
       \/ /\ process_flumen' = TRUE            \* given and found
          /\ trace' = Append(trace, Event("files", "FLUMEN", TRUE))
          /\ Goto("l_map_sync")
          /\ Progress(20)
          /\ UNCHANGED <<error_calls, error_titles, step_failed>>
       \/ /\ ErrorAndReturn("Path Not Found", "l_map_sync")  \* not found
          /\ trace' = Append(trace, Event("files", "FLUMEN", FALSE))
          /\ UNCHANGED <<proc, process_flumen, progress_calls>>
    /\ UNCHANGED <<process_beni, files_updated, has_lmkd, has_chimera,
                   vince_lines, run_frame>>

\* the map and sync commands
LoadMapSync ==
    /\ proc = "load" /\ rpc = "l_map_sync"
    /\ \/ RunCommands(<<<<"client_o", "-">>, <<"client_i", "-">>>>
                      \o ForTargets("sync", process_beni, process_flumen),
                      "l_extract", 60)
       \/ Raise                                \* get_client_name() is None
    /\ UNCHANGED run_frame

\* extract_properties_from_file for the targets: a mapping, or None
LoadExtract ==
    /\ proc = "load" /\ rpc = "l_extract"
    /\ \/ /\ Goto("l_finish")
          /\ Progress(80)
          /\ UNCHANGED <<error_calls, error_titles, step_failed>>
       \/ /\ ErrorAndReturn("Properties Not Found", "l_finish")
          /\ UNCHANGED <<proc, progress_calls>>
       \/ /\ rpc' = "except"                   \* depot_to_local_path raises
          /\ step_failed' = TRUE
          /\ UNCHANGED <<proc, outcome, error_calls, error_titles,
                         progress_calls>>
    /\ UNCHANGED <<process_beni, process_flumen, files_updated, trace,
                   has_lmkd, has_chimera, vince_lines, run_frame>>

\* the comparison, progress_callback(100) and the return
LoadFinish ==
    /\ proc = "load" /\ rpc = "l_finish"
    /\ Progress(100)
    /\ rpc' = "done"
    /\ outcome' = "returned"
    /\ UNCHANGED <<proc, process_beni, process_flumen, files_updated,
                   error_calls, error_titles, step_failed, trace, has_lmkd,
                   has_chimera, vince_lines, run_frame>>

\* the title the except clause of workflow p passes to error_callback
except_title(p) ==
    CASE p = "bringup" -> "Process Error"
      [] p = "tuning" -> "Tuning Process Error"
      [] OTHER -> "Load Properties Error"

\* "except Exception as e": the error callback, and progress_callback(0) in
\* run_bringup_process and run_tuning_process
Except ==
    /\ rpc = "except"
    /\ error_calls' = error_calls + 1
    /\ error_titles' = Append(error_titles, except_title(proc))
    /\ progress_calls' = IF proc = "load" THEN progress_calls
                         ELSE Append(progress_calls, 0)
    /\ rpc' = "done"
    /\ outcome' = "returned"
    /\ UNCHANGED <<proc, process_beni, process_flumen, files_updated,
                   step_failed, trace, has_lmkd, has_chimera, vince_lines,
                   run_frame>>

NextRun ==
    \/ ValidateVince
    \/ CheckBeni
    \/ CheckFlumen
    \/ LocalPaths
    \/ CreateChangelist
    \/ MapClient
    \/ SyncFiles
    \/ ValidateProperties
    \/ Checkout
    \/ UpdateTargets
    \/ TuningPaths
    \/ TuningChangelist
    \/ TuningCheckout
    \/ TuningApplyBeni
    \/ TuningApplyFlumen
    \/ TuningReport
    \/ LoadBeni
    \/ LoadFlumen
    \/ LoadMapSync
    \/ LoadExtract
    \/ LoadFinish
    \/ Except

SpecRun == InitRun /\ [][NextRun]_vars

(***************************************************************************)
(* C19: in every run of run_bringup_process, run_tuning_process or         *)
(* load_properties_for_tuning in which a step fails, the error callback is *)
(* invoked exactly once and no exception leaves the function; a file I/O   *)
(* failure while applying properties to one of two targets is reported     *)
(* through the error callback.                                             *)
(***************************************************************************)
C19_ErrorReportedOnce ==
    /\ outcome # "raised"
    /\ (rpc = "done" /\ step_failed) => error_calls = 1

(***************************************************************************)
(* C20: in every run of run_bringup_process or run_tuning_process that     *)
(* ends with the error callback having fired, the last value passed to the *)
(* progress callback is 0, or no value was passed at all.                  *)
(***************************************************************************)
C20_ProgressResetOnError ==
    (rpc = "done" /\ proc \in {"bringup", "tuning"} /\ error_calls >= 1) =>
        \/ progress_calls = <<>>
        \/ progress_calls[Len(progress_calls)] = 0

\* the position of the first occurrence of event e in the trace, 0 if none
Pos(e) ==
    IF \E i \in DOMAIN trace : trace[i] = e
    THEN SetMin({i \in DOMAIN trace : trace[i] = e})
    ELSE 0

\* the run has issued a command or file operation op on file t
Touched(ops, t) == \E i \in DOMAIN trace : trace[i].op \in ops /\ trace[i].on = t

(***************************************************************************)
(* C21: when the synced reference file holds no LMKD, DHA or Chimera       *)
(* header line, a finished run of run_bringup_process has called the error *)
(* callback with "Properties Not Found" and has checked out, backed up and *)
(* written no target file.                                                 *)
(***************************************************************************)
C21_NoHeaderNoEdit ==
    ( /\ proc = "bringup" /\ rpc = "done"
      /\ Pos(Event("sync", "VINCE", TRUE)) > 0
      /\ Touched({"read"}, "VINCE")
      /\ ~Has(vince_lines, LMKD_HEADER)
      /\ ~Has(vince_lines, DHA_HEADER)
      /\ ~Has(vince_lines, CHIMERA_HEADER) ) =>
        /\ error_titles = <<"Properties Not Found">>
        /\ \A i \in DOMAIN trace : trace[i].op \notin {"edit", "backup", "write"}

(***************************************************************************)
(* C22: in run_bringup_process and run_tuning_process a version-control    *)
(* command that fails is the last thing the run does: it is not issued     *)
(* again and no later command, backup or write follows; what was done      *)
(* before it stays, so a failed checkout comes after the changelist was    *)
(* created.                                                                *)
(***************************************************************************)
C22_AbortAtFailedCommand ==
    proc \in {"bringup", "tuning"} =>
        \A i \in DOMAIN trace :
            (trace[i].op \in VcsOps /\ ~trace[i].ok) =>
                /\ i = Len(trace)
                /\ rpc \in {"except", "done"}
                /\ trace[i].op = "edit" => Pos(Event("change_i", "-", TRUE)) \in 1..(i - 1)

\* the checkout of the second target failed after the first was opened
C22_Witness ==
    /\ proc = "bringup" /\ rpc = "done"
    /\ trace[Len(trace)] = Event("edit", "FLUMEN", FALSE)
    /\ Pos(Event("edit", "BENI", TRUE)) > 0
    /\ error_titles = <<"Process Error">>

\* the titles of the errors the path validations report
ValidationTitles == {"Path Not Found", "No Valid Targets", "No Valid Paths"}

\* the run is over and its path validation had failed
ValidationFailed ==
    /\ rpc = "done"
    /\ \/ ~process_beni /\ ~process_flumen
       \/ proc = "load" /\ Pos(Event("files", "FLUMEN", FALSE)) > 0

(***************************************************************************)
(* C23: a run whose path validation fails calls the error callback and     *)
(* ends having created no changelist, changed no mapping, synced, checked  *)
(* out, backed up or written nothing, and having reported no progress      *)
(* value other than 0.                                                     *)
(***************************************************************************)
C23_ValidationFailureChangesNothing ==
    ValidationFailed =>
        /\ error_calls = 1
        /\ error_titles[1] \in ValidationTitles
        /\ \A i \in DOMAIN trace : trace[i].op = "files"
        /\ \A i \in DOMAIN progress_calls : progress_calls[i] = 0

\* load_properties_for_tuning found BENI and did not find FLUMEN
C23_Witness ==
    /\ ValidationFailed
    /\ proc = "load"
    /\ process_beni
    /\ error_titles = <<"Path Not Found">>

(***************************************************************************)
(* C25: the values passed to the progress callback in one run lie in       *)
(* 0..100 and increase strictly, except that a run in which a step failed  *)
(* may report 0 as its last value; a run that ends without a failure has   *)
(* reported 100 last.                                                      *)
(***************************************************************************)
C25_ProgressMonotone ==
    /\ \A i \in DOMAIN progress_calls : progress_calls[i] \in 0..100
    /\ \A i \in 1..(Len(progress_calls) - 1) :
           \/ progress_calls[i] < progress_calls[i + 1]
           \/ /\ i + 1 = Len(progress_calls)
              /\ progress_calls[i + 1] = 0
              /\ step_failed
    /\ (rpc = "done" /\ ~step_failed) =>
           /\ progress_calls # <<>>
           /\ progress_calls[Len(progress_calls)] = 100

\* a run reported 0 after larger values, and a run ended at 100
C25_Witness ==
    /\ rpc = "done"
    /\ proc = "tuning"
    /\ progress_calls = <<10, 30, 50, 0>>

(***************************************************************************)
(* C26: in run_bringup_process a target is written only after, in this     *)
(* order, the VINCE path and the target's path were validated, the         *)
(* changelist was created, the mapping was updated, the reference and the  *)
(* target were synced, the reference was found to hold a category, and the *)
(* target was opened for edit; a target that was not given or not found is *)
(* never synced, checked out, backed up or written.                        *)
(***************************************************************************)
C26_BringupOrder ==
    proc = "bringup" =>
        \A t \in {"BENI", "FLUMEN"} :
            /\ \A i \in DOMAIN trace :
                   (trace[i].op = "write" /\ trace[i].on = t) =>
                       /\ 0 < Pos(Event("files", "VINCE", TRUE))
                       /\ Pos(Event("files", "VINCE", TRUE)) < Pos(Event("files", t, TRUE))
                       /\ Pos(Event("files", t, TRUE)) < Pos(Event("change_i", "-", TRUE))
                       /\ Pos(Event("change_i", "-", TRUE)) < Pos(Event("client_i", "-", TRUE))
                       /\ Pos(Event("client_i", "-", TRUE)) < Pos(Event("sync", "VINCE", TRUE))
                       /\ Pos(Event("sync", "VINCE", TRUE)) < Pos(Event("sync", t, TRUE))
                       /\ Pos(Event("sync", t, TRUE)) < Pos(Event("read", "VINCE", TRUE))
                       /\ has_lmkd \/ has_chimera
                       /\ Pos(Event("read", "VINCE", TRUE)) < Pos(Event("edit", t, TRUE))
                       /\ Pos(Event("edit", t, TRUE)) < i
            /\ Pos(Event("files", t, TRUE)) = 0 =>
                   ~Touched({"sync", "edit", "read", "backup", "write"}, t)

\* FLUMEN was written in a run in which BENI was given and not found
C26_Witness ==
    /\ proc = "bringup"
    /\ Pos(Event("write", "FLUMEN", TRUE)) > 0
    /\ Pos(Event("files", "BENI", FALSE)) > 0

(***************************************************************************)
(* C29: for a reference file that can be read, validate_properties_exist   *)
(* reports the LMKD category exactly when extract_block finds a section    *)
(* for the LMKD or the DHA header, and the Chimera category exactly when   *)
(* extract_block finds a section for the Chimera header.                   *)
(***************************************************************************)
C29_ValidateAgreesWithLocator ==
    (proc = "bringup" /\ Pos(Event("read", "VINCE", TRUE)) > 0) =>
        /\ has_lmkd <=> lmkd_block(vince_lines) # <<>>
        /\ has_chimera <=> chimera_block(vince_lines) # <<>>

(***************************************************************************)
(* C28: when the reference file holds only one of the two categories,      *)
(* update_lmkd_chimera leaves the target's section of the other category   *)
(* as it was: its header line and its property lines are still there.      *)
(***************************************************************************)
C28_MissingCategoryLeftAlone ==
    (applied = 1 /\ impl = "bringup") =>
        /\ ( /\ ~in_content(CHIMERA_HEADER, vince_lines)
             /\ validate_properties_exist(vince_lines).has_lmkd )
               => chimera_block(TargetAfter) = chimera_block(original)
        /\ ( /\ ~validate_properties_exist(vince_lines).has_lmkd
             /\ in_content(CHIMERA_HEADER, vince_lines) )
               => extract_block(TargetAfter, LMKD_HEADER, LMKD_NEXT)
                      = extract_block(original, LMKD_HEADER, LMKD_NEXT)

(***************************************************************************)
(* Load, then apply: the tuning tab reads the table from the file with     *)
(* extract_properties_from_file and hands it, unedited, to                 *)
(* apply_properties_to_file.                                               *)
(***************************************************************************)
\* the value extract_properties_from_file returns: None, or the two mappings
extract_properties_from_file(ls) ==
    LET first == extract_block(ls, LMKD_HEADER, LMKD_NEXT)
        lmkd == IF first = <<>> THEN extract_block(ls, DHA_HEADER, DHA_NEXT)
                ELSE first
        chimera == extract_block(ls, CHIMERA_HEADER, CHIMERA_NEXT)
        lmkd_props == IF lmkd # <<>> THEN parse_properties_block(lmkd) ELSE <<>>
        chimera_props ==
            IF chimera # <<>> THEN parse_properties_block(chimera) ELSE <<>>
    IN  [none |-> lmkd_props = <<>> /\ chimera_props = <<>>,
         properties |-> [LMKD |-> lmkd_props, Chimera |-> chimera_props]]

\* the files the table is loaded from
RoundTripFiles == Files \cup LayoutFiles \cup TargetFiles

InitRoundTrip ==
    /\ lines \in RoundTripFiles
    /\ impl = "load"
    /\ new_properties = <<>>
    /\ original = lines
    /\ applied = 0
    /\ parsed = NotParsed
    /\ NoFileEdit
    /\ NoIO
    /\ NoRun
    /\ NoGui

\* load_properties_for_tuning's extract_properties_from_file on the file:
\* the table is filled when it returns a mapping
LoadProperties ==
    /\ impl = "load"
    /\ LET r == extract_properties_from_file(lines)
       IN  /\ impl' = IF r.none THEN "none" ELSE "tuning"
           /\ properties_dict' = r.properties
    /\ UNCHANGED <<lines, new_properties, original, applied, parsed,
                   vince_lines, extracted, io_vars, run_vars, gui_vars>>

NextRoundTrip ==
    \/ LoadProperties
    \/ ApplyPropertiesToFile

SpecRoundTrip == InitRoundTrip /\ [][NextRoundTrip]_vars

(***************************************************************************)
(* C27: load-then-apply is the identity.  Applying the mapping that        *)
(* extract_properties_from_file returned for a file, unchanged, to that    *)
(* file leaves its line sequence as it was.                                *)
(***************************************************************************)
C27_LoadThenApplyIsIdentity ==
    (impl = "tuning" /\ applied = 1) => lines = original

(***************************************************************************)
(* C30: the copy of update_properties_block_preserve_format in             *)
(* tuning_process.py and the copy in file_operations.py return the same    *)
(* line sequence for the same lines, mapping, header and terminators.      *)
(***************************************************************************)
C30_CopiesEquivalent ==
    applied >= 1 =>
        /\ impl = "tuning" =>
               lines = fileops_update_properties_block_preserve_format(
                           original, new_properties, LMKD_HEADER, LMKD_NEXT)
        /\ impl = "file_ops" =>
               lines = tuning_update_properties_block_preserve_format(
                           original, new_properties, LMKD_HEADER, LMKD_NEXT)

(***************************************************************************)
(* The window (main_gui.py): the main thread handles one event at a time:  *)
(* a click, a tab change, typing into an entry, or a callback that a       *)
(* worker thread handed over with root.after(0, ...).  A click on a        *)
(* disabled button, or on a button of the tab that is not shown, reaches   *)
(* no handler.  A handler that only shows a message box changes nothing.   *)
(* The log, the status line, the progress bar and the table are left out.  *)
(***************************************************************************)
MaxThreads == 3   \* worker threads started while the window is open

EntryNames ==
    {"bringup_beni", "bringup_vince", "bringup_flumen", "tuning_beni",
     "tuning_flumen"}

\* the depot path the user types into an entry
PathFor(e) ==
    CASE e \in {"bringup_beni", "tuning_beni"} -> "//d/beni.mk"
      [] e \in {"bringup_flumen", "tuning_flumen"} -> "//d/flumen.mk"
      [] OTHER -> "//d/vince.mk"

\* the window after __init__
InitGui ==
    /\ bringup_start_btn = "normal"
    /\ load_properties_btn = "normal"
    /\ tuning_start_btn = "disabled"
    /\ current_mode = "bringup"
    /\ entries = [e \in EntryNames |-> ""]
    /\ after_queue = <<>>
    /\ threads = <<>>
    /\ lines = <<>>
    /\ new_properties = <<>>
    /\ impl = "none"
    /\ original = <<>>
    /\ applied = 0
    /\ parsed = NotParsed
    /\ NoFileEdit
    /\ NoIO
    /\ NoRun

\* what no event of the window changes
gui_frame ==
    <<lines, new_properties, impl, original, applied, parsed, file_vars,
      io_vars, run_vars>>

\* path.startswith("//")
is_depot_path(path) == path # ""

\* the target paths a handler passes to its worker
targets_of(beni_path, flumen_path) ==
    {p \in {beni_path, flumen_path} : is_depot_path(p)}

\* threading.Thread(target=..., daemon=True).start()
start_thread(kind, writes) ==
    threads' = Append(threads, [kind |-> kind, writes |-> writes, alive |-> TRUE])

\* the user types a path into an entry, or empties it
TypeEntry ==
    /\ \E e \in EntryNames :
           /\ (e \in {"bringup_beni", "bringup_vince", "bringup_flumen"})
                  <=> current_mode = "bringup"
           /\ entries' = [entries EXCEPT
                              ![e] = IF entries[e] = "" THEN PathFor(e) ELSE ""]
    /\ UNCHANGED <<bringup_start_btn, load_properties_btn, tuning_start_btn,
                   current_mode, after_queue, threads, gui_frame>>

\* on_tab_changed, switch_mode
OnTabChanged ==
    /\ current_mode' = IF current_mode = "bringup" THEN "tuning" ELSE "bringup"
    /\ UNCHANGED <<bringup_start_btn, load_properties_btn, tuning_start_btn,
                   entries, after_queue, threads, gui_frame>>

\* on_clear
OnClear ==
    /\ IF current_mode = "bringup"
       THEN /\ entries' = [e \in EntryNames |->
                              IF e \in {"bringup_beni", "bringup_vince",
                                        "bringup_flumen"}
                              THEN "" ELSE entries[e]]
            /\ UNCHANGED tuning_start_btn
       ELSE /\ entries' = [e \in EntryNames |->
                              IF e \in {"tuning_beni", "tuning_flumen"}
                              THEN "" ELSE entries[e]]
            /\ tuning_start_btn' = "disabled"
    /\ UNCHANGED <<bringup_start_btn, load_properties_btn, current_mode,
                   after_queue, threads, gui_frame>>

\* on_bringup_start and _run_bringup_process
OnBringupStart ==
    /\ current_mode = "bringup"
    /\ bringup_start_btn = "normal"
    /\ Len(threads) < MaxThreads
    /\ is_depot_path(entries["bringup_vince"])
    /\ targets_of(entries["bringup_beni"], entries["bringup_flumen"]) # {}
    /\ bringup_start_btn' = "disabled"
    /\ start_thread("bringup",
                    targets_of(entries["bringup_beni"], entries["bringup_flumen"]))
    /\ UNCHANGED <<load_properties_btn, tuning_start_btn, current_mode,
                   entries, after_queue, gui_frame>>

\* on_load_properties and _load_properties
OnLoadProperties ==
    /\ current_mode = "tuning"
    /\ load_properties_btn = "normal"
    /\ Len(threads) < MaxThreads
    /\ targets_of(entries["tuning_beni"], entries["tuning_flumen"]) # {}
    /\ load_properties_btn' = "disabled"
    /\ tuning_start_btn' = "disabled"
    /\ start_thread("load", {})
    /\ UNCHANGED <<bringup_start_btn, current_mode, entries, after_queue,
                   gui_frame>>

\* on_tuning_start and _run_tuning_process
OnTuningStart ==
    /\ current_mode = "tuning"
    /\ tuning_start_btn = "normal"
    /\ Len(threads) < MaxThreads
    /\ targets_of(entries["tuning_beni"], entries["tuning_flumen"]) # {}
    /\ tuning_start_btn' = "disabled"
    /\ start_thread("tuning",
                    targets_of(entries["tuning_beni"], entries["tuning_flumen"]))
    /\ UNCHANGED <<bringup_start_btn, load_properties_btn, current_mode,
                   entries, after_queue, gui_frame>>

\* the callbacks a worker hands to root.after when its function has returned
finally_callbacks(kind, loaded) ==
    CASE kind = "bringup" -> <<"bringup_start_btn">>
      [] kind = "tuning" -> <<"tuning_start_btn">>
      [] OTHER -> (IF loaded THEN <<"tuning_start_btn">> ELSE <<>>)
                  \o <<"load_properties_btn">>

\* a worker thread comes to its end: run_process_thread, load_thread
WorkerReturns ==
    /\ \E i \in DOMAIN threads, loaded \in BOOLEAN :
           /\ threads[i].alive
           /\ loaded => threads[i].kind = "load"
           /\ threads' = [threads EXCEPT ![i].alive = FALSE]
           /\ after_queue' = after_queue \o finally_callbacks(threads[i].kind, loaded)
    /\ UNCHANGED <<bringup_start_btn, load_properties_btn, tuning_start_btn,
                   current_mode, entries, gui_frame>>

\* the main loop runs the oldest callback: button.configure(state="normal")
RunCallback ==
    /\ after_queue # <<>>
    /\ after_queue' = Tail(after_queue)
    /\ bringup_start_btn' = IF Head(after_queue) = "bringup_start_btn"
                            THEN "normal" ELSE bringup_start_btn
    /\ load_properties_btn' = IF Head(after_queue) = "load_properties_btn"
                              THEN "normal" ELSE load_properties_btn
    /\ tuning_start_btn' = IF Head(after_queue) = "tuning_start_btn"
                           THEN "normal" ELSE tuning_start_btn
    /\ UNCHANGED <<current_mode, entries, threads, gui_frame>>

NextGui ==
    \/ TypeEntry
    \/ OnTabChanged
    \/ OnClear
    \/ OnBringupStart
    \/ OnLoadProperties
    \/ OnTuningStart
    \/ WorkerReturns
    \/ RunCallback

SpecGui == InitGui /\ [][NextGui]_vars

(***************************************************************************)
(* C24: under any sequence of user actions at most one worker thread that  *)
(* writes a given target file is running: no second bringup or tuning      *)
(* worker on a file starts while one that writes the file is still alive.  *)
(***************************************************************************)
C24_OneEditInFlight ==
    \A i, j \in DOMAIN threads :
        (i # j /\ threads[i].alive /\ threads[j].alive) =>
            threads[i].writes \cap threads[j].writes = {}

====
